---- MODULE Spec2Model ----
(***************************************************************************)
(* Image / volume chain engine of vdsm on a file storage domain.           *)
(*                                                                         *)
(* The store is the image directory: per volume UUID a payload file, a     *)
(* lease file and a metadata file (PUUID, VOLTYPE, LEGALITY, IMAGE).       *)
(* Image operations (getChain, merge, syncVolumeChain, move) and           *)
(* FileVolume.delete are state machines over that store; the positions     *)
(* inside an operation are kept because the operations fail part-way and   *)
(* leave the store as it is at that point.                                 *)
(***************************************************************************)
EXTENDS Integers, Sequences, FiniteSets, TLC

\* ------------------------------------------------------------------ bounds
\* Volumes a corrupted image may hold in the chain-walk specification.
MaxWalkVols == 3

\* Volumes of the chain an image starts with; two more UUIDs are there for
\* the volumes a merge or a snapshot adds.
MaxChain == 3
\* Image operations started in one behaviour.
MaxOps == 2
\* Failures (a call that raises) injected into one behaviour.
MaxFaults == 1
\* Failures injected into a behaviour while a caller's delete of one volume
\* runs: its three cleanup steps can each fail.
MaxDeleteFaults == 3

\* ------------------------------------------------------------- identifiers
\* sc.BLANK_UUID: "no parent".
BLANK_UUID == 0
\* The volume of the shared template image (a SHARED base other images use).
TMPL == 9
WalkIds == 1..MaxWalkVols
Ids == 1..(MaxChain + 2)

VolTypes == {"LEAF", "INTERNAL", "SHARED"}

\* The metadata record of a volume that has no metadata file.
NoMeta == [parent |-> BLANK_UUID, voltype |-> "NONE", legality |-> "NONE",
           image |-> "NONE", format |-> "NONE"]

TemplateMeta == [parent |-> BLANK_UUID, voltype |-> "SHARED",
                 legality |-> "LEGAL", image |-> "tmpl", format |-> "RAW"]

VARIABLES
    meta,       \* volume UUID -> metadata record (NoMeta: no .meta file)
    payload,    \* volume UUID -> the payload file exists
    lease,      \* volume UUID -> the lease file exists
    recoveries, \* the task's recovery stack
    op,         \* the image operation in progress and its position
    dl,         \* the FileVolume.delete in progress and its position
    faults,     \* the failures injected so far
    nops,       \* the image operations started so far
    synced,     \* syncVolumeChain has rewritten metadata of the image
    dest,       \* the image on the destination domain of move
    gc,         \* the position of a running getChain
    fs,         \* the files of one volume: directory entries and inodes
    procs       \* the processes working on those files and their positions

\* --------------------------------------------------------- operation state
\* No image operation is running.
OpIdle == [kind |-> "none", pc |-> "idle", out |-> "none",
           anc |-> BLANK_UUID, succ |-> BLANK_UUID, discard |-> FALSE,
           chunked |-> FALSE, variant |-> "none", chain |-> <<>>,
           dstParent |-> BLANK_UUID, children |-> {}, rm |-> <<>>,
           cur |-> BLANK_UUID, stop |-> BLANK_UUID, nextv |-> BLANK_UUID,
           tmp |-> BLANK_UUID, shrunk |-> FALSE, committed |-> FALSE,
           at |-> "none", raised |-> {}, mop |-> "none", force |-> FALSE,
           forceArg |-> FALSE, readable |-> TRUE, overwrote |-> FALSE,
           src0 |-> <<>>]
\* No FileVolume.delete is running.
DlIdle == [pc |-> "none", vol |-> BLANK_UUID, force |-> FALSE,
           discard |-> FALSE, eFound |-> "none", result |-> "none",
           caught |-> <<>>]

\* The destination domain holds no volume of the image.
NoDest == [meta |-> [v \in Ids \cup {TMPL} |->
                        IF v = TMPL THEN TemplateMeta ELSE NoMeta],
           copied |-> {}]

\* No file of the volume is looked at, no process works on one.
NoFiles == <<>>
NoProcs == <<>>

\* The exceptions the except clauses of image.py tell apart.
ExcKinds == {"ActionStopped", "StorageException", "CmdError", "Exception"}

\* volclass(repoPath, sdUUID, imgUUID, volUUID) / produceVolume: the volume
\* object can be built when its payload and its metadata file exist
\* (validateVolumePath), otherwise VolumeDoesNotExist.
produces(m, pl, v) == v # BLANK_UUID /\ pl[v] /\ m[v] # NoMeta

\* ---------------------------------------------------------------- getChain
\* Volume.isShared / Volume.isLeaf / getParent read the metadata record.
isShared(m, v) == m[v].voltype = "SHARED"
isLeaf(m, v) == m[v].voltype = "LEAF"
getParent(m, v) == m[v].parent

\* FileVolumeManifest.getImageVolumes: the *.meta files of the image directory
\* whose IMAGE is the image (a template hard-linked into it is left out).
getImageVolumes(m, img) ==
    {v \in DOMAIN m : m[v] # NoMeta /\ m[v].image = img}

GcIdle == [pc |-> "idle", cur |-> BLANK_UUID, start |-> BLANK_UUID,
           given |-> FALSE, chain |-> <<>>, seen |-> {}, result |-> "none"]

\* Image.getChain up to the chain walk: the start volume is volUUID when it is
\* given, otherwise the volume the leaf search stops at (leaf: the first LEAF
\* of uuidlist in the directory's listing order, BLANK_UUID when it has none).
getChainBegin(m, img, volUUID, leaf) ==
    LET uuidlist == getImageVolumes(m, img)
        g == [GcIdle EXCEPT !.given = (volUUID # BLANK_UUID)]
    IN  IF volUUID # BLANK_UUID
        THEN IF isShared(m, volUUID)
             THEN [g EXCEPT !.pc = "done", !.start = volUUID,
                            !.chain = <<volUUID>>, !.result = "ok"]
             ELSE [g EXCEPT !.pc = "walk", !.start = volUUID, !.cur = volUUID]
        ELSE IF uuidlist = {}
             THEN [g EXCEPT !.pc = "done", !.result = "ImageDoesNotExistInSD"]
             ELSE IF Cardinality(uuidlist) = 1
                     /\ \A v \in uuidlist : isShared(m, v)
             THEN [g EXCEPT !.pc = "done", !.result = "ok",
                            !.start = CHOOSE v \in uuidlist : TRUE,
                            !.chain = <<CHOOSE v \in uuidlist : TRUE>>]
             ELSE IF leaf = BLANK_UUID
             THEN [g EXCEPT !.pc = "done", !.result = "ImageIsNotLegalChain"]
             ELSE [g EXCEPT !.pc = "walk", !.start = leaf, !.cur = leaf]

\* A walk that never notices a parent it has already visited.
parentSeenNever(parentUUID, seen) == FALSE

\* The check of the parent against the volumes already walked.
parentSeen(parentUUID, seen) == parentUUID \in seen

\* A walk that appends each volume instead of inserting it at the front.
getChainStepAppend(m, pl, g) ==
    IF isShared(m, g.cur)
    THEN [g EXCEPT !.pc = "done", !.result = "ok"]
    ELSE LET chain == g.chain \o <<g.cur>>
             seen == g.seen \cup {g.cur}
             parentUUID == getParent(m, g.cur)
         IN  IF parentUUID = BLANK_UUID
             THEN [g EXCEPT !.pc = "done", !.result = "ok", !.chain = chain,
                            !.seen = seen]
             ELSE IF parentSeen(parentUUID, seen)
             THEN [g EXCEPT !.pc = "done", !.result = "ImageIsNotLegalChain",
                            !.chain = chain, !.seen = seen]
             ELSE [g EXCEPT !.cur = parentUUID, !.chain = chain, !.seen = seen]

\* One iteration of getChain's while loop (getParentVolume builds the parent
\* volume, which raises VolumeDoesNotExist when its files are missing).
getChainStep(m, pl, g) ==
    IF isShared(m, g.cur)
    THEN [g EXCEPT !.pc = "done", !.result = "ok"]
    ELSE LET chain == <<g.cur>> \o g.chain
             seen == g.seen \cup {g.cur}
             parentUUID == getParent(m, g.cur)
         IN  IF parentUUID = BLANK_UUID
             THEN [g EXCEPT !.pc = "done", !.result = "ok", !.chain = chain,
                            !.seen = seen]
             ELSE IF parentSeen(parentUUID, seen)
             THEN [g EXCEPT !.pc = "done", !.result = "ImageIsNotLegalChain",
                            !.chain = chain, !.seen = seen]
             ELSE IF ~produces(m, pl, parentUUID)
             THEN [g EXCEPT !.pc = "done", !.result = "VolumeDoesNotExist",
                            !.chain = chain, !.seen = seen]
             ELSE [g EXCEPT !.cur = parentUUID, !.chain = chain, !.seen = seen]

\* getChain as one call: the walk run to its end.
RECURSIVE walkFrom(_, _, _)
walkFrom(m, pl, g) ==
    IF g.pc = "walk" THEN walkFrom(m, pl, getChainStep(m, pl, g)) ELSE g

getChain(m, pl, img, volUUID, leaf) ==
    walkFrom(m, pl, getChainBegin(m, img, volUUID, leaf))

\* The leaves the leaf search can stop at.
Leaves(m, img) == {v \in getImageVolumes(m, img) : isLeaf(m, v)}
LeafPicks(m, img) ==
    IF Leaves(m, img) = {} THEN {BLANK_UUID} ELSE Leaves(m, img)

GetChainStart(volUUID) ==
    /\ gc.pc = "idle"
    /\ IF volUUID = BLANK_UUID THEN TRUE ELSE meta[volUUID] # NoMeta
    /\ \E leaf \in LeafPicks(meta, "img") :
          gc' = getChainBegin(meta, "img", volUUID, leaf)
    /\ UNCHANGED <<meta, payload, lease, recoveries, op, dl, faults, nops,
                   synced, dest, fs, procs>>

GetChainWalk ==
    /\ gc.pc = "walk"
    /\ gc' = getChainStep(meta, payload, gc)
    /\ UNCHANGED <<meta, payload, lease, recoveries, op, dl, faults, nops,
                   synced, dest, fs, procs>>

\* Every metadata a (possibly corrupted) image of k volumes can hold: any
\* parent among the image's volumes, the template or BLANK, any VOLTYPE.
WalkMetas(k) ==
    [parent : (0..k) \cup {TMPL}, voltype : VolTypes, legality : {"LEGAL"},
     image : {"img"}, format : {"COW"}]

InitWalk ==
    /\ \E k \in 0..MaxWalkVols :
          meta \in {m \in [WalkIds \cup {TMPL} ->
                              WalkMetas(k) \cup {NoMeta, TemplateMeta}] :
                       /\ m[TMPL] = TemplateMeta
                       /\ \A v \in 1..k : m[v] \in WalkMetas(k)
                       /\ \A v \in WalkIds \ (1..k) : m[v] = NoMeta}
    /\ gc = GcIdle
    /\ payload = [v \in WalkIds \cup {TMPL} |-> meta[v] # NoMeta]
    /\ lease = [v \in WalkIds \cup {TMPL} |-> meta[v] # NoMeta]
    /\ recoveries = <<>>
    /\ op = OpIdle
    /\ dl = DlIdle
    /\ faults = 0
    /\ nops = 0
    /\ synced = FALSE
    /\ dest = NoDest
    /\ fs = NoFiles
    /\ procs = NoProcs

vars == <<meta, payload, lease, recoveries, op, dl, faults, nops, synced,
          dest, gc, fs, procs>>

NextWalk ==
    \/ \E volUUID \in WalkIds \cup {BLANK_UUID, TMPL} :
          /\ GetChainStart(volUUID)
    \/ GetChainWalk

SpecWalk == InitWalk /\ [][NextWalk]_vars

\* One more operation is started on the image.
Begin == nops < MaxOps /\ nops' = nops + 1

\* ------------------------------------------------------------------ faults
\* A call raises: one more injected failure.  A call returns: none.
FaultLimit == IF op.kind = "delete" THEN MaxDeleteFaults ELSE MaxFaults
Fault == faults < FaultLimit /\ faults' = faults + 1
NoFault == faults' = faults

\* ------------------------------------------------------------ volume store
\* FileVolumeManifest.getChildren: the volumes of the image directory whose
\* metadata names v as PUUID.
getChildren(m, v) == {c \in DOMAIN m : m[c] # NoMeta /\ m[c].parent = v}

setLegality(m, v, legality) == [m EXCEPT ![v].legality = legality]
setParentMeta(m, v, puuid) == [m EXCEPT ![v].parent = puuid]
setVolType(m, v, voltype) == [m EXCEPT ![v].voltype = voltype]

\* Volume.recheckIfLeaf: a volume that is not SHARED becomes LEAF when it has
\* no children and INTERNAL when it has some.
recheckIfLeaf(m, v) ==
    IF isShared(m, v) THEN m
    ELSE IF getChildren(m, v) = {} THEN setVolType(m, v, "LEAF")
    ELSE setVolType(m, v, "INTERNAL")

\* The volumes of the image the operations work on.
ImgVols == getImageVolumes(meta, "img")

\* ------------------------------------------------------- FileVolume.delete
\* delete(postZero, force, discard) is entered: the position is the check of
\* the arguments.
dlEnter(v, force, discard) ==
    [pc |-> "validate", vol |-> v, force |-> force, discard |-> discard,
     eFound |-> "CannotDeleteVolume", result |-> "none", caught |-> <<>>]

dlRaise(d, e) == [d EXCEPT !.pc = "done", !.result = e]

\* Lines 560-566: discard is refused on a file domain; without force,
\* validateDelete refuses a SHARED volume and a volume that has children.
DeleteValidate ==
    /\ dl.pc = "validate"
    /\ dl' = IF dl.discard THEN dlRaise(dl, "DiscardIsNotSupported")
             ELSE IF ~dl.force /\ isShared(meta, dl.vol)
             THEN dlRaise(dl, "CannotDeleteSharedVolume")
             ELSE IF ~dl.force /\ getChildren(meta, dl.vol) # {}
             THEN dlRaise(dl, "VolumeImageHasChildren")
             ELSE [dl EXCEPT !.pc = "legal"]
    /\ IF dl.discard THEN Fault ELSE NoFault
    /\ UNCHANGED <<meta, payload, lease, recoveries, op, nops, synced, dest, gc, fs,
                   procs>>

\* A delete that goes on to the cleanup without marking the volume.
deleteMarkSkipped(m, v) == m

\* Line 569: mark volume as illegal before deleting.
deleteMark(m, v) == setLegality(m, v, "ILLEGAL")

\* Line 569 as a step: setLegality either writes the record or raises
\* VolumeMetadataWriteError, which delete does not catch.
DeleteMarkIllegal ==
    /\ dl.pc = "legal"
    /\ \/ /\ meta' = deleteMark(meta, dl.vol)
          /\ dl' = [dl EXCEPT !.pc = "parent"]
          /\ NoFault
       \/ /\ dl' = dlRaise(dl, "VolumeMetadataWriteError")
          /\ UNCHANGED meta
          /\ Fault
    /\ UNCHANGED <<payload, lease, recoveries, op, nops, synced, dest, gc, fs,
                   procs>>

\* A fix-up that blanks the parent record and leaves the old parent alone.
fixParentBlankOnly(m, v) == setParentMeta(m, v, BLANK_UUID)

\* Lines 577-582: the parent record is blanked and the old parent, when there
\* is one, is rechecked.
fixParent(m, v) ==
    LET puuid == getParent(m, v)
        blanked == setParentMeta(m, v, BLANK_UUID)
    IN  IF puuid # BLANK_UUID THEN recheckIfLeaf(blanked, puuid) ELSE blanked

\* except Exception as e: eFound = e (lines 583-584, 591-592, 599-600); the
\* errors captured so far are kept in caught, in the order of their capture.
dlCaught(d, e, pc) ==
    [d EXCEPT !.pc = pc, !.eFound = e, !.caught = Append(@, e)]

\* Lines 574-586: the parent record is blanked and the old parent rechecked;
\* an error of any of the calls is kept in eFound and delete goes on.
\*   failAt = "setParent":  getParent or setParent raised, nothing written
\*   failAt = "recheck":    the old parent could not be produced or rechecked
DeleteFixParent ==
    /\ dl.pc = "parent"
    /\ LET puuid == getParent(meta, dl.vol)
           blanked == setParentMeta(meta, dl.vol, BLANK_UUID)
       IN  \/ /\ UNCHANGED meta
              /\ dl' = dlCaught(dl, "ParentError", "rm")
              /\ Fault
           \/ /\ puuid # BLANK_UUID
              /\ meta' = blanked
              /\ dl' = dlCaught(dl, "ParentError", "rm")
              /\ IF produces(meta, payload, puuid) THEN Fault ELSE NoFault
           \/ /\ puuid # BLANK_UUID => produces(meta, payload, puuid)
              /\ meta' = fixParent(meta, dl.vol)
              /\ dl' = [dl EXCEPT !.pc = "rm"]
              /\ NoFault
    /\ UNCHANGED <<payload, lease, recoveries, op, nops, synced, dest, gc, fs,
                   procs>>

\* Lines 588-594: rmFile(vol_path) then rmFile(lease_path) in one try block:
\* when the first raises the second is not attempted.
DeleteRmFiles ==
    /\ dl.pc = "rm"
    /\ \/ /\ UNCHANGED <<payload, lease>>
          /\ dl' = dlCaught(dl, "RmFileError", "meta")
          /\ Fault
       \/ /\ payload' = [payload EXCEPT ![dl.vol] = FALSE]
          /\ UNCHANGED lease
          /\ dl' = dlCaught(dl, "RmFileError", "meta")
          /\ Fault
       \/ /\ payload' = [payload EXCEPT ![dl.vol] = FALSE]
          /\ lease' = [lease EXCEPT ![dl.vol] = FALSE]
          /\ dl' = [dl EXCEPT !.pc = "meta"]
          /\ NoFault
    /\ UNCHANGED <<meta, recoveries, op, nops, synced, dest, gc, fs, procs>>

\* What delete ends with once removeMetadata has succeeded.
deleteReturn(d) == [d EXCEPT !.pc = "done", !.result = "ok"]

\* Lines 596-604: removeMetadata succeeded: return True; it raised: the error
\* replaces eFound and eFound is raised.
DeleteRmMeta ==
    /\ dl.pc = "meta"
    /\ \/ /\ meta' = [meta EXCEPT ![dl.vol] = NoMeta]
          /\ dl' = deleteReturn(dl)
          /\ NoFault
       \/ /\ UNCHANGED meta
          /\ dl' = LET d == dlCaught(dl, "MetaError", "done")
                   IN  [d EXCEPT !.result = d.eFound]
          /\ Fault
    /\ UNCHANGED <<payload, lease, recoveries, op, nops, synced, dest, gc, fs,
                   procs>>

\* What the caller of delete sees raised: removeMetadata and rmFile raise
\* OSError, the other errors of delete are StorageExceptions.
dlKind(result) == IF result = "MetaError" THEN "Exception"
                  ELSE "StorageException"

\* ------------------------------------------------------ volume operations
\* The lowest UUID no file of which exists.
FreeIds == {v \in Ids : ~payload[v] /\ ~lease[v] /\ meta[v] = NoMeta}
NewId == CHOOSE v \in FreeIds : \A w \in FreeIds : v <= w

newMeta(puuid, format) ==
    [parent |-> puuid, voltype |-> "LEAF", legality |-> "LEGAL",
     image |-> "img", format |-> format]

\* createVolume of the first volume of an image: a RAW or COW base with no
\* parent, or a COW volume on top of the template.
CreateVolume(puuid, format) ==
    /\ op.kind = "none"
    /\ Begin
    /\ ImgVols = {}
    /\ FreeIds # {}
    /\ puuid = TMPL => format = "COW"
    /\ meta' = [meta EXCEPT ![NewId] = newMeta(puuid, format)]
    /\ payload' = [payload EXCEPT ![NewId] = TRUE]
    /\ lease' = [lease EXCEPT ![NewId] = TRUE]
    /\ UNCHANGED <<recoveries, op, dl, faults, synced, dest, gc, fs, procs>>

\* createVolume with srcVolUUID = the image's leaf: a COW child of it; the
\* parent becomes INTERNAL.
CreateSnapshot(puuid) ==
    /\ op.kind = "none"
    /\ Begin
    /\ puuid \in ImgVols
    /\ produces(meta, payload, puuid)
    /\ isLeaf(meta, puuid) /\ meta[puuid].legality = "LEGAL"
    /\ FreeIds # {}
    /\ meta' = [setVolType(meta, puuid, "INTERNAL")
                    EXCEPT ![NewId] = newMeta(puuid, "COW")]
    /\ payload' = [payload EXCEPT ![NewId] = TRUE]
    /\ lease' = [lease EXCEPT ![NewId] = TRUE]
    /\ UNCHANGED <<recoveries, op, dl, faults, synced, dest, gc, fs, procs>>

\* A caller deletes one volume of the image (force = False).
DeleteVolume(v, discard) ==
    /\ op.kind = "none"
    /\ Begin
    /\ v \in ImgVols
    /\ produces(meta, payload, v)
    /\ discard => faults < MaxFaults
    /\ op' = [OpIdle EXCEPT !.kind = "delete", !.pc = "deleting"]
    /\ dl' = dlEnter(v, FALSE, discard)
    /\ UNCHANGED <<meta, payload, lease, recoveries, faults, synced, dest, gc, fs,
                   procs>>

DeleteVolumeEnd ==
    /\ op.kind = "delete"
    /\ dl.pc = "done"
    /\ op' = OpIdle
    /\ dl' = DlIdle
    /\ UNCHANGED <<meta, payload, lease, recoveries, faults, nops, synced, dest, gc, fs,
                   procs>>

\* ------------------------------------------------------------ Image.merge
\* Volume.rebase: the parent record is rewritten and the rebased volume is
\* rechecked.
rebase(m, v, backingVol) == recheckIfLeaf(setParentMeta(m, v, backingVol), v)

\* subChainSizeCalc: the volumes from successor up to ancestor, parent first.
RECURSIVE subChainSizeCalc(_, _, _)
subChainSizeCalc(m, endVolName, currVolName) ==
    IF currVolName = endVolName THEN <<>>
    ELSE Append(subChainSizeCalc(m, endVolName, getParent(m, currVolName)),
                currVolName)

Elems(chain) == {chain[i] : i \in 1..Len(chain)}

\* A merge that leaves the successor in the chain to remove.
chainKept(chain, v) == chain

\* chain.remove(volUUID)
chainRemove(chain, v) == SelectSeq(chain, LAMBDA x : x # v)

\* The except clauses of merge's first try block (lines 1364-1371).
mergeRaise(k) == IF k \in {"ActionStopped", "StorageException"} THEN k
                 ELSE "SourceImageActionError"
mergeFail(o, k) == [o EXCEPT !.pc = "done", !.out = mergeRaise(k),
                             !.at = o.pc]

\* Which of the three procedures merge takes (lines 1338-1358).
mergeVariant(m, anc) ==
    IF getParent(m, anc) # BLANK_UUID THEN "internal"
    ELSE IF m[anc].format = "RAW" THEN "baseRaw"
    ELSE "baseCow"

\* Lines 1304-1330: every volume of the image is produced, the successor's
\* children and the sub-chain are collected.  The caller passes an ancestor
\* that the successor's chain holds.
Merge(anc, succ, discard) ==
    /\ op.kind = "none"
    /\ Begin
    /\ anc \in ImgVols /\ succ \in ImgVols /\ anc # succ
    /\ discard => faults < MaxFaults
    /\ IF \E v \in ImgVols : ~produces(meta, payload, v)
       THEN /\ op' = [OpIdle EXCEPT !.kind = "merge", !.pc = "done",
                                    !.anc = anc, !.succ = succ,
                                    !.out = "StorageException",
                                    !.at = "produce",
                                    !.src0 = <<meta, payload, lease>>]
       ELSE LET g == getChain(meta, payload, "img", succ, succ)
                variant == mergeVariant(meta, anc)
            IN  /\ g.result = "ok"
                /\ anc \in Elems(g.chain)
                /\ variant = "baseCow" => Cardinality(FreeIds) >= 1
                /\ variant = "baseRaw" => Cardinality(FreeIds) >= 2
                /\ op' = [OpIdle EXCEPT
                            !.kind = "merge", !.pc = variant,
                            !.anc = anc, !.succ = succ,
                            !.discard = discard,
                            !.variant = variant,
                            !.src0 = <<meta, payload, lease>>,
                            !.dstParent = getParent(meta, anc),
                            !.children = getChildren(meta, succ),
                            !.chain = subChainSizeCalc(
                                          meta, getParent(meta, anc), succ)]
    /\ UNCHANGED <<meta, payload, lease, recoveries, dl, faults, synced, dest, gc, fs,
                   procs>>

\* _internalVolumeMerge: extend, prepare, safe rebase of the successor on the
\* ancestor's parent with a rollback recovery, teardown; the chain to remove
\* is the sub-chain without the successor.
InternalVolumeMerge ==
    /\ op.kind = "merge" /\ op.pc = "internal"
    /\ \/ \E k \in ExcKinds :
             /\ op' = mergeFail(op, k)
             /\ recoveries' = Append(recoveries, "rebaseVolumeRollback")
             /\ UNCHANGED meta
             /\ Fault
       \/ \E k \in ExcKinds :
             /\ op' = mergeFail(op, k)
             /\ recoveries' = Append(recoveries, "rebaseVolumeRollback")
             /\ meta' = rebase(meta, op.succ, op.dstParent)
             /\ Fault
       \/ /\ op' = [op EXCEPT !.pc = "clear",
                               !.rm = chainRemove(op.chain, op.succ)]
          /\ recoveries' = Append(recoveries, "rebaseVolumeRollback")
          /\ meta' = rebase(meta, op.succ, op.dstParent)
          /\ NoFault
    /\ UNCHANGED <<payload, lease, dl, nops, synced, dest, gc, fs, procs>>

\* _baseCowVolumeMerge step 1 (lines 1055-1075): extend, then an empty COW
\* volume with no parent is created next to the chain.
BaseCowCreate ==
    /\ op.kind = "merge" /\ op.pc = "baseCow"
    /\ \/ \E k \in ExcKinds :
             /\ op' = mergeFail(op, k)
             /\ UNCHANGED <<meta, payload, lease>>
             /\ Fault
       \/ /\ meta' = [meta EXCEPT
                        ![NewId] = newMeta(BLANK_UUID, meta[op.anc].format)]
          /\ payload' = [payload EXCEPT ![NewId] = TRUE]
          /\ lease' = [lease EXCEPT ![NewId] = TRUE]
          /\ op' = [op EXCEPT !.pc = "cowRebase", !.tmp = NewId]
          /\ NoFault
    /\ UNCHANGED <<recoveries, dl, nops, synced, dest, gc, fs, procs>>

\* Steps 2 and 3 (lines 1080-1100): safe rebase of the successor on the
\* temporary volume, unsafe rebase on no backing file; then (1103-1105) the
\* temporary volume is torn down and its delete is entered.
BaseCowRebase ==
    /\ op.kind = "merge" /\ op.pc = "cowRebase"
    /\ recoveries' = Append(recoveries, "rebaseVolumeRollback")
    /\ LET first == rebase(meta, op.succ, op.tmp)
           second == rebase(first, op.succ, BLANK_UUID)
       IN  \/ \E k \in ExcKinds, m \in {meta, first, second} :
                 /\ op' = mergeFail(op, k)
                 /\ meta' = m
                 /\ UNCHANGED dl
                 /\ Fault
           \/ /\ meta' = second
              /\ op' = [op EXCEPT !.pc = "cowDelete"]
              /\ dl' = dlEnter(op.tmp, TRUE, op.discard)
              /\ NoFault
    /\ UNCHANGED <<payload, lease, nops, synced, dest, gc, fs, procs>>

\* Lines 1105-1111: delete of the temporary volume returned or raised.
BaseCowDeleted ==
    /\ op.kind = "merge" /\ op.pc = "cowDelete"
    /\ dl.pc = "done"
    /\ op' = IF dl.result = "ok"
             THEN [op EXCEPT !.pc = "clear",
                             !.rm = chainRemove(op.chain, op.succ)]
             ELSE mergeFail(op, dlKind(dl.result))
    /\ dl' = DlIdle
    /\ UNCHANGED <<meta, payload, lease, recoveries, faults, nops, synced, dest, gc, fs,
                   procs>>

\* FileVolume.rename up to a stage: 1 the payload, 2 the metadata file, 3 the
\* lease (a missing lease is passed over).
renamePayload(pl, v, w, stage) ==
    IF stage >= 1 THEN [pl EXCEPT ![w] = TRUE, ![v] = FALSE] ELSE pl
renameMeta(m, v, w, stage) ==
    IF stage >= 2 THEN [m EXCEPT ![w] = m[v], ![v] = NoMeta] ELSE m
renameLease(ls, v, w, stage) ==
    IF stage >= 3 /\ ls[v] THEN [ls EXCEPT ![w] = TRUE, ![v] = FALSE] ELSE ls
\* One recovery is pushed before each of the three renames.
renameRecoveries(r, stage) ==
    r \o SubSeq(<<"renameVolumeRollback", "renameVolumeRollback",
                  "renameVolumeRollback">>, 1, IF stage >= 2 THEN 3
                                               ELSE stage + 1)

\* _baseRawVolumeMerge steps 1 and 2 (lines 1126-1167): successor_MERGE is
\* created RAW with no parent, the successor is converted into it, and it is
\* made INTERNAL when the successor has children.  cmdutils.Error of the
\* conversion is raised as MergeSnapshotsError.
BaseRawConvert ==
    /\ op.kind = "merge" /\ op.pc = "baseRaw"
    /\ LET created == [meta EXCEPT
                         ![NewId] = newMeta(BLANK_UUID, meta[op.anc].format)]
       IN  \/ \E k \in ExcKinds :
                 /\ op' = mergeFail(op, k)
                 /\ UNCHANGED <<meta, payload, lease>>
                 /\ Fault
           \/ \E k \in ExcKinds :
                 /\ op' = mergeFail(op, IF k = "CmdError"
                                        THEN "StorageException" ELSE k)
                 /\ meta' = created
                 /\ payload' = [payload EXCEPT ![NewId] = TRUE]
                 /\ lease' = [lease EXCEPT ![NewId] = TRUE]
                 /\ Fault
           \/ /\ meta' = IF op.children # {}
                          THEN setVolType(created, NewId, "INTERNAL")
                          ELSE created
              /\ payload' = [payload EXCEPT ![NewId] = TRUE]
              /\ lease' = [lease EXCEPT ![NewId] = TRUE]
              /\ op' = [op EXCEPT !.pc = "rawRename1", !.tmp = NewId]
              /\ NoFault
    /\ UNCHANGED <<recoveries, dl, nops, synced, dest, gc, fs, procs>>

\* Step 3 (lines 1170-1171): the successor is renamed to a name of its own
\* (deletedVolumeName); the rename can stop after any of its three renames.
BaseRawRenameSuccessor ==
    /\ op.kind = "merge" /\ op.pc = "rawRename1"
    /\ \/ \E stage \in 0..3, k \in ExcKinds :
             /\ meta' = renameMeta(meta, op.succ, NewId, stage)
             /\ payload' = renamePayload(payload, op.succ, NewId, stage)
             /\ lease' = renameLease(lease, op.succ, NewId, stage)
             /\ recoveries' = renameRecoveries(recoveries, stage)
             /\ op' = mergeFail(op, k)
             /\ Fault
       \/ /\ meta' = renameMeta(meta, op.succ, NewId, 3)
          /\ payload' = renamePayload(payload, op.succ, NewId, 3)
          /\ lease' = renameLease(lease, op.succ, NewId, 3)
          /\ recoveries' = renameRecoveries(recoveries, 3)
          /\ op' = [op EXCEPT !.pc = "rawRename2", !.nextv = NewId]
          /\ NoFault
    /\ UNCHANGED <<dl, nops, synced, dest, gc, fs, procs>>

\* Step 4 (line 1173): successor_MERGE takes the successor's name.
BaseRawRenameMerged ==
    /\ op.kind = "merge" /\ op.pc = "rawRename2"
    /\ \/ \E stage \in 0..3, k \in ExcKinds :
             /\ meta' = renameMeta(meta, op.tmp, op.succ, stage)
             /\ payload' = renamePayload(payload, op.tmp, op.succ, stage)
             /\ lease' = renameLease(lease, op.tmp, op.succ, stage)
             /\ recoveries' = renameRecoveries(recoveries, stage)
             /\ op' = mergeFail(op, k)
             /\ Fault
       \/ /\ meta' = renameMeta(meta, op.tmp, op.succ, 3)
          /\ payload' = renamePayload(payload, op.tmp, op.succ, 3)
          /\ lease' = renameLease(lease, op.tmp, op.succ, 3)
          /\ recoveries' = renameRecoveries(recoveries, 3)
          /\ op' = [op EXCEPT !.pc = "rawRebase"]
          /\ NoFault
    /\ UNCHANGED <<dl, nops, synced, dest, gc, fs, procs>>

\* The children of the successor rebased on it, each rechecked.
RECURSIVE rebaseChildren(_, _, _)
rebaseChildren(m, chList, succ) ==
    IF chList = {} THEN m
    ELSE LET ch == CHOOSE c \in chList : TRUE
         IN  rebaseChildren(recheckIfLeaf(rebase(m, ch, succ), ch),
                            chList \ {ch}, succ)

\* Step 5 (lines 1178-1194): the children are rebased unsafely on the new
\* successor; the chain to remove is the sub-chain without the successor
\* plus the renamed old successor.
BaseRawRebaseChildren ==
    /\ op.kind = "merge" /\ op.pc = "rawRebase"
    /\ \/ /\ op.children # {}
          /\ \E k \in ExcKinds : op' = mergeFail(op, k)
          /\ recoveries' = Append(recoveries, "rebaseVolumeRollback")
          /\ UNCHANGED meta
          /\ Fault
       \/ /\ meta' = rebaseChildren(meta, op.children, op.succ)
          /\ recoveries' = IF op.children = {} THEN recoveries
                           ELSE Append(recoveries, "rebaseVolumeRollback")
          /\ op' = [op EXCEPT
                      !.pc = "clear",
                      !.rm = Append(chainRemove(op.chain, op.succ), op.nextv)]
          /\ NoFault
    /\ UNCHANGED <<payload, lease, dl, nops, synced, dest, gc, fs, procs>>

\* task.clearRecoveries
clearRecoveries(r) == <<>>

\* Lines 1361-1363 up to the loop of markIllegalSubChain: the recoveries are
\* cleared, then the last volume of the chain to remove and the parent of its
\* first volume are looked up.
MergeClearRecoveries ==
    /\ op.kind = "merge" /\ op.pc = "clear"
    /\ recoveries' = clearRecoveries(recoveries)
    /\ LET ancestor == op.rm[1]
           successor == op.rm[Len(op.rm)]
       IN  IF produces(meta, payload, ancestor)
              /\ produces(meta, payload, successor)
           THEN op' = [op EXCEPT !.pc = "mark", !.cur = successor,
                                 !.stop = getParent(meta, ancestor),
                                 !.committed = TRUE]
           ELSE op' = [mergeFail(op, "StorageException") EXCEPT
                          !.committed = TRUE, !.at = "mark",
                          !.raised = {<<"mark", "StorageException">>}]
    /\ UNCHANGED <<meta, payload, lease, dl, faults, nops, synced, dest, gc, fs,
                   procs>>

\* A marking loop that leaves the volume as it is.
markSkipped(m, v) == m

\* Line 954
markIllegal(m, v) == setLegality(m, v, "ILLEGAL")

\* One iteration of the loop of markIllegalSubChain (lines 952-955); the
\* loop's end passes on to removeSubChain, whose first lines (1002-1004) look
\* the two ends of the chain up again.
MarkIllegalSubChain ==
    /\ op.kind = "merge" /\ op.pc = "mark"
    /\ IF op.cur = BLANK_UUID \/ op.cur = op.stop
       THEN /\ op' = [op EXCEPT !.pc = "remove",
                                !.cur = op.rm[Len(op.rm)],
                                !.stop = getParent(meta, op.rm[1])]
            /\ UNCHANGED meta
            /\ NoFault
       ELSE LET puuid == getParent(meta, op.cur)
            IN  IF puuid # BLANK_UUID /\ ~produces(meta, payload, puuid)
                THEN /\ op' = [mergeFail(op, "StorageException") EXCEPT
                                  !.raised = {<<"mark", "StorageException">>}]
                     /\ UNCHANGED meta
                     /\ NoFault
                ELSE \/ /\ meta' = markIllegal(meta, op.cur)
                        /\ op' = [op EXCEPT !.cur = puuid]
                        /\ NoFault
                     \/ /\ op' = [mergeFail(op, "StorageException") EXCEPT
                                  !.raised = {<<"mark", "StorageException">>}]
                        /\ UNCHANGED meta
                        /\ Fault
    /\ UNCHANGED <<payload, lease, recoveries, dl, nops, synced, dest, gc, fs,
                   procs>>

\* Lines 1006-1010: the parent is looked up, then the volume is deleted with
\* force; an exception ends removeSubChain and is logged by merge (1377).
RemoveSubChainDelete ==
    /\ op.kind = "merge" /\ op.pc = "remove"
    /\ IF op.cur = BLANK_UUID \/ op.cur = op.stop
       THEN /\ op' = [op EXCEPT !.pc = "shrink"]
            /\ UNCHANGED dl
       ELSE LET puuid == getParent(meta, op.cur)
            IN  IF ~produces(meta, payload, op.cur)
                   \/ (puuid # BLANK_UUID /\ ~produces(meta, payload, puuid))
                THEN /\ op' = [op EXCEPT
                                 !.pc = "shrink",
                                 !.raised = @ \cup
                                     {<<"remove", "StorageException">>}]
                     /\ UNCHANGED dl
                ELSE /\ op' = [op EXCEPT !.pc = "removing", !.nextv = puuid]
                     /\ dl' = dlEnter(op.cur, TRUE, op.discard)
    /\ UNCHANGED <<meta, payload, lease, recoveries, faults, nops, synced, dest, gc, fs,
                   procs>>

\* Lines 1011-1012 when delete returned; line 1377 when it raised.
RemoveSubChainNext ==
    /\ op.kind = "merge" /\ op.pc = "removing"
    /\ dl.pc = "done"
    /\ op' = IF dl.result = "ok"
             THEN [op EXCEPT !.pc = "remove", !.cur = op.nextv,
                             !.rm = chainRemove(op.rm, op.cur)]
             ELSE [op EXCEPT !.pc = "shrink",
                             !.raised = @ \cup
                                 {<<"remove", dlKind(dl.result)>>}]
    /\ dl' = DlIdle
    /\ UNCHANGED <<meta, payload, lease, recoveries, faults, nops, synced, dest, gc, fs,
                   procs>>

\* A merge that logs every error of the shrinking.
shrinkCaughtAll(k) == TRUE

\* Line 1385: except cmdutils.Error
shrinkCaught(k) == k = "CmdError"

\* Lines 1381-1389 and _shrinkVolumeToOptimalSize: the successor is produced;
\* a volume that is not chunked (first branch) is left alone; a chunked one
\* is reduced; cmdutils.Error is logged, any other error leaves merge.
ShrinkVolumeToOptimalSize ==
    /\ op.kind = "merge" /\ op.pc = "shrink"
    /\ IF ~produces(meta, payload, op.succ)
       THEN /\ op' = [op EXCEPT
                        !.pc = "done", !.out = "StorageException",
                        !.at = "shrink",
                        !.raised = @ \cup {<<"produce", "StorageException">>}]
            /\ NoFault
       ELSE \/ /\ op' = [op EXCEPT !.pc = "done", !.out = "ok"]
               /\ NoFault
            \/ /\ op' = [op EXCEPT !.pc = "done", !.out = "ok",
                                    !.chunked = TRUE, !.shrunk = TRUE]
               /\ NoFault
            \/ \E k \in ExcKinds :
                  /\ op' = IF shrinkCaught(k)
                           THEN [op EXCEPT
                                   !.pc = "done", !.out = "ok",
                                   !.chunked = TRUE,
                                   !.raised = @ \cup {<<"shrink", k>>}]
                           ELSE [op EXCEPT
                                   !.pc = "done", !.out = k,
                                   !.chunked = TRUE, !.at = "shrink",
                                   !.raised = @ \cup {<<"shrink", k>>}]
                  /\ Fault
    /\ UNCHANGED <<meta, payload, lease, recoveries, dl, nops, synced, dest, gc, fs,
                   procs>>

\* syncVolumeChain, lines 1227-1232: the first run of volumes of the current
\* chain that the actual chain lacks, the last of the run first.
RECURSIVE unlinked(_, _, _)
unlinked(curChain, actualChain, subChain) ==
    IF curChain = <<>> THEN subChain
    ELSE IF Head(curChain) \notin actualChain
    THEN unlinked(Tail(curChain), actualChain, <<Head(curChain)>> \o subChain)
    ELSE IF Len(subChain) > 0 THEN subChain
    ELSE unlinked(Tail(curChain), actualChain, subChain)

RECURSIVE setParentMetaAll(_, _, _)
setParentMetaAll(m, chList, puuid) ==
    IF chList = {} THEN m
    ELSE LET ch == CHOOSE c \in chList : TRUE
         IN  setParentMetaAll(setParentMeta(m, ch, puuid), chList \ {ch},
                              puuid)

\* syncVolumeChain(sdUUID, imgUUID, volUUID, actualChain), lines 1223-1250.
syncVolumeChain(m, pl, volUUID, actualChain) ==
    LET g == getChain(m, pl, "img", volUUID, volUUID)
        subChain == unlinked(g.chain, actualChain, <<>>)
        dstParent == getParent(m, subChain[1])
        subChainTailVol == subChain[Len(subChain)]
    IN  IF g.result # "ok" \/ Len(subChain) = 0 THEN m
        ELSE IF isLeaf(m, subChainTailVol)
        THEN setLegality(m, subChainTailVol, "ILLEGAL")
        ELSE setParentMetaAll(m, getChildren(m, subChainTailVol), dstParent)

\* The caller reports the chain of a volume of the image as qemu sees it: a
\* part of the chain the metadata holds.
SyncVolumeChain(volUUID, actualChain) ==
    /\ op.kind = "none"
    /\ Begin
    /\ volUUID \in ImgVols
    /\ produces(meta, payload, volUUID)
    /\ LET g == getChain(meta, payload, "img", volUUID, volUUID)
       IN  /\ g.result = "ok"
           /\ actualChain # {}
           /\ actualChain \subseteq Elems(g.chain)
           /\ actualChain # Elems(g.chain)
    /\ meta' = syncVolumeChain(meta, payload, volUUID, actualChain)
    /\ synced' = (synced \/ meta' # meta)
    /\ UNCHANGED <<payload, lease, recoveries, op, dl, faults, dest, gc, fs,
                   procs>>

\* ------------------------------------------------------------- Image.move
\* isLegal (lines 290-307): every volume of the image is LEGAL.
isLegal(m) == \A v \in getImageVolumes(m, "img") : m[v].legality = "LEGAL"

moveFail(o, k) == [o EXCEPT !.pc = "done", !.out = k, !.at = o.pc]

\* A move that overwrites the destination only when it is told to.
overwritesForced(force, legal) == force

\* Lines 524-525: if not self.isLegal(...): force = True
overwrites(force, legal) == force \/ ~legal

\* Lines 522-525: an image that is not legal on the destination is
\* overwritten.  readable: the volumes of the destination image can be
\* looked at (isLegal answers False when anything raises, lines 304-305).
Move(mop, force, readable) ==
    /\ op.kind = "none"
    /\ Begin
    /\ ImgVols # {}
    /\ op' = [OpIdle EXCEPT !.kind = "move", !.pc = "deleteDest",
                            !.mop = mop,
                            !.force = overwrites(force, readable
                                                   /\ isLegal(dest.meta)),
                            !.forceArg = force,
                            !.readable = readable,
                            !.src0 = <<meta, payload, lease>>]
    /\ UNCHANGED <<meta, payload, lease, recoveries, dl, faults, synced, dest,
                   gc, fs, procs>>

\* Lines 528-531: with force the image is deleted from the destination; an
\* error of that leaves move.
MoveDeleteDest ==
    /\ op.kind = "move" /\ op.pc = "deleteDest"
    /\ IF ~op.force
       THEN /\ op' = [op EXCEPT !.pc = "create"]
            /\ UNCHANGED dest
            /\ NoFault
       ELSE \/ /\ op' = [op EXCEPT !.pc = "create",
                                    !.overwrote = (dest # NoDest)]
               /\ dest' = NoDest
               /\ NoFault
            \/ /\ \E k \in ExcKinds : op' = moveFail(op, k)
               /\ UNCHANGED dest
               /\ Fault
    /\ UNCHANGED <<meta, payload, lease, recoveries, dl, nops, synced, gc, fs,
                   procs>>

\* destDom.createVolume for the first j volumes of the source chain: each
\* takes the UUID, the parent and the format of its source volume and is
\* created as a LEAF, its parent on the destination becoming INTERNAL.
RECURSIVE createdOnDest(_, _, _, _)
createdOnDest(dm, m, chain, j) ==
    IF j = 0 THEN dm
    ELSE LET before == createdOnDest(dm, m, chain, j - 1)
             v == chain[j]
             puuid == getParent(m, v)
             made == [before EXCEPT ![v] = newMeta(puuid, m[v].format)]
         IN  IF puuid # BLANK_UUID /\ ~isShared(made, puuid)
             THEN setVolType(made, puuid, "INTERNAL")
             ELSE made

\* The volumes of the chain that createVolume finds on the destination.
onDest(dm, chain) == {i \in 1..Len(chain) : dm[chain[i]] # NoMeta}

\* _createTargetImage (lines 321-421): the source chain is walked from the
\* leaf getChain finds, one volume is created on the destination per source
\* volume; every error leaves as a StorageException.
CreateTargetImage ==
    /\ op.kind = "move" /\ op.pc = "create"
    /\ \E leaf \in LeafPicks(meta, "img") :
          LET g == getChain(meta, payload, "img", BLANK_UUID, leaf)
              n == Len(g.chain)
              there == onDest(dest.meta, g.chain)
              first == CHOOSE i \in there : \A x \in there : i <= x
          IN  IF g.result # "ok"
              THEN /\ op' = moveFail(op, "StorageException")
                   /\ UNCHANGED <<dest, recoveries>>
                   /\ NoFault
              ELSE IF there # {}
              THEN /\ op' = moveFail(op, "StorageException")
                   /\ dest' = [dest EXCEPT !.meta = createdOnDest(
                                     dest.meta, meta, g.chain, first - 1)]
                   /\ recoveries' = Append(recoveries, "createVolumeRollback")
                   /\ NoFault
              ELSE \/ /\ op' = [op EXCEPT !.pc = "copy", !.chain = g.chain]
                      /\ dest' = [dest EXCEPT !.meta = createdOnDest(
                                        dest.meta, meta, g.chain, n)]
                      /\ recoveries' =
                             Append(recoveries, "createVolumeRollback")
                      /\ NoFault
                   \/ \E j \in 0..(n - 1) :
                        /\ op' = moveFail(op, "StorageException")
                        /\ dest' = [dest EXCEPT !.meta = createdOnDest(
                                          dest.meta, meta, g.chain, j)]
                        /\ recoveries' =
                               Append(recoveries, "createVolumeRollback")
                        /\ Fault
    /\ UNCHANGED <<meta, payload, lease, dl, nops, synced, gc, fs, procs>>

\* _interImagesCopy (lines 423-491): both chains are prepared, then every
\* volume is converted onto its destination volume.
InterImagesCopy ==
    /\ op.kind = "move" /\ op.pc = "copy"
    /\ \/ /\ op' = [op EXCEPT !.pc = "finalize"]
          /\ dest' = [dest EXCEPT !.copied = Elems(op.chain)]
          /\ NoFault
       \/ \E k \in ExcKinds, j \in 0..(Len(op.chain) - 1) :
             /\ op' = moveFail(op, k)
             /\ dest' = [dest EXCEPT !.copied = {op.chain[i] : i \in 1..j}]
             /\ Fault
    /\ UNCHANGED <<meta, payload, lease, recoveries, dl, nops, synced, gc, fs,
                   procs>>

\* _finalizeDestinationImage (lines 493-510)
RECURSIVE finalized(_, _, _, _)
finalized(dm, m, chain, j) ==
    IF j = 0 THEN dm
    ELSE LET before == finalized(dm, m, chain, j - 1)
             v == chain[j]
         IN  IF isShared(m, v) THEN setVolType(before, v, "SHARED")
             ELSE IF m[v].voltype = "INTERNAL"
             THEN setVolType(before, v, "INTERNAL")
             ELSE before

\* Lines 535-539: the roles of the source volumes are applied again; with
\* force the template links are made again.
FinalizeDestinationImage ==
    /\ op.kind = "move" /\ op.pc = "finalize"
    /\ LET done == finalized(dest.meta, meta, op.chain, Len(op.chain))
       IN  \/ /\ op' = [op EXCEPT !.pc = "commit"]
              /\ dest' = [dest EXCEPT !.meta = done]
              /\ NoFault
           \/ /\ op' = moveFail(op, "StorageException")
              /\ UNCHANGED dest
              /\ Fault
           \/ /\ op.force
              /\ \E k \in ExcKinds : op' = moveFail(op, k)
              /\ dest' = [dest EXCEPT !.meta = done]
              /\ Fault
    /\ UNCHANGED <<meta, payload, lease, recoveries, dl, nops, synced, gc, fs,
                   procs>>

\* A move that deletes the source whatever the operation is.
deletesSourceAlways(mop) == TRUE

\* Line 545: if op == MOVE_OP
deletesSource(mop) == mop = "MOVE"

\* Lines 541-545: the copy part is over, the recoveries are cleared.
MoveClearRecoveries ==
    /\ op.kind = "move" /\ op.pc = "commit"
    /\ recoveries' = clearRecoveries(recoveries)
    /\ op' = IF deletesSource(op.mop)
             THEN [op EXCEPT !.pc = "deleteSrc", !.committed = TRUE]
             ELSE [op EXCEPT !.pc = "done", !.out = "ok", !.committed = TRUE]
    /\ UNCHANGED <<meta, payload, lease, dl, faults, nops, synced, dest, gc, fs,
                   procs>>

\* Line 550: except se.StorageException
moveCaught(k) == k = "StorageException"

\* The files of the volumes in gone are removed.
removedMeta(m, gone) == [v \in DOMAIN m |-> IF v \in gone THEN NoMeta ELSE m[v]]
removedFiles(f, gone) == [v \in DOMAIN f |-> IF v \in gone THEN FALSE ELSE f[v]]

\* Lines 545-553 and _deleteImage (65-78): the source image is deleted; the
\* deleting can raise after it has removed a part of the volumes.
MoveDeleteSource ==
    /\ op.kind = "move" /\ op.pc = "deleteSrc"
    /\ \/ /\ meta' = removedMeta(meta, ImgVols)
          /\ payload' = removedFiles(payload, ImgVols)
          /\ lease' = removedFiles(lease, ImgVols)
          /\ op' = [op EXCEPT !.pc = "done", !.out = "ok"]
          /\ NoFault
       \/ \E k \in ExcKinds, gone \in SUBSET ImgVols \ {ImgVols} :
             /\ meta' = removedMeta(meta, gone)
             /\ payload' = removedFiles(payload, gone)
             /\ lease' = removedFiles(lease, gone)
             /\ op' = IF moveCaught(k)
                      THEN [op EXCEPT
                              !.pc = "done", !.out = "ok",
                              !.raised = @ \cup {<<"deleteSrc", k>>}]
                      ELSE [op EXCEPT
                              !.pc = "done", !.out = k, !.at = "deleteSrc",
                              !.raised = @ \cup {<<"deleteSrc", k>>}]
             /\ Fault
    /\ UNCHANGED <<recoveries, dl, nops, synced, dest, gc, fs, procs>>

MoveReturn ==
    /\ op.kind = "move" /\ op.pc = "done"
    /\ op' = OpIdle
    /\ recoveries' = <<>>
    /\ UNCHANGED <<meta, payload, lease, dl, faults, nops, synced, dest, gc, fs,
                   procs>>

MergeReturn ==
    /\ op.kind = "merge" /\ op.pc = "done"
    /\ op' = OpIdle
    /\ recoveries' = <<>>
    /\ UNCHANGED <<meta, payload, lease, dl, faults, nops, synced, dest, gc, fs,
                   procs>>

\* The image as createVolume leaves it after n calls: a base volume (RAW or
\* COW with no parent, or COW on the template) and n - 1 snapshots, each the
\* COW child of the one before; the last one is the LEAF.
chainMeta(n, puuid, format) ==
    [v \in Ids \cup {TMPL} |->
        IF v = TMPL THEN TemplateMeta
        ELSE IF v > n THEN NoMeta
        ELSE [parent |-> IF v = 1 THEN puuid ELSE v - 1,
              voltype |-> IF v = n THEN "LEAF" ELSE "INTERNAL",
              legality |-> "LEGAL", image |-> "img",
              format |-> IF v = 1 THEN format ELSE "COW"]]

Init ==
    /\ \E n \in 0..MaxChain, puuid \in {BLANK_UUID, TMPL},
          format \in {"RAW", "COW"} :
          /\ puuid = TMPL => format = "COW"
          /\ meta = chainMeta(n, puuid, format)
    /\ payload = [v \in Ids \cup {TMPL} |-> meta[v] # NoMeta]
    /\ lease = [v \in Ids \cup {TMPL} |-> meta[v] # NoMeta]
    /\ recoveries = <<>>
    /\ op = OpIdle
    /\ dl = DlIdle
    /\ faults = 0
    /\ nops = 0
    /\ synced = FALSE
    /\ dest = NoDest
    /\ gc = GcIdle
    /\ fs = NoFiles
    /\ procs = NoProcs

Next ==
    \/ \E puuid \in {BLANK_UUID, TMPL}, format \in {"RAW", "COW"} :
          CreateVolume(puuid, format)
    \/ \E puuid \in Ids : CreateSnapshot(puuid)
    \/ \E v \in Ids, discard \in BOOLEAN : DeleteVolume(v, discard)
    \/ DeleteValidate
    \/ DeleteMarkIllegal
    \/ DeleteFixParent
    \/ DeleteRmFiles
    \/ DeleteRmMeta
    \/ DeleteVolumeEnd
    \/ \E anc \in ImgVols, succ \in ImgVols, discard \in BOOLEAN :
          Merge(anc, succ, discard)
    \/ InternalVolumeMerge
    \/ BaseCowCreate
    \/ BaseCowRebase
    \/ BaseCowDeleted
    \/ BaseRawConvert
    \/ BaseRawRenameSuccessor
    \/ BaseRawRenameMerged
    \/ BaseRawRebaseChildren
    \/ \E volUUID \in ImgVols, actualChain \in SUBSET ImgVols :
          SyncVolumeChain(volUUID, actualChain)
    \/ MergeClearRecoveries
    \/ MarkIllegalSubChain
    \/ RemoveSubChainDelete
    \/ RemoveSubChainNext
    \/ ShrinkVolumeToOptimalSize
    \/ MergeReturn
    \/ \E mop \in {"COPY", "MOVE"}, force \in BOOLEAN, readable \in BOOLEAN :
          Move(mop, force, readable)
    \/ MoveDeleteDest
    \/ CreateTargetImage
    \/ InterImagesCopy
    \/ FinalizeDestinationImage
    \/ MoveClearRecoveries
    \/ MoveDeleteSource
    \/ MoveReturn

Spec == Init /\ [][Next]_vars

\* ------------------------------------- rollbacks of a file volume creation
\* Recoveries the task holds when it starts to roll back.
MaxRecoveries == 3
\* The volumes the recoveries were pushed for.
RollbackVols == 1..2

\* A rollback that unlinks the payload whatever the metadata file says.
halfbakedUnlinksAlways(pl, m, v) == [pl EXCEPT ![v] = FALSE]

\* halfbakedVolumeRollback, lines 415-417: the payload is unlinked when it
\* exists and the metadata file does not.
halfbakedVolumeRollback(pl, m, v) ==
    IF pl[v] /\ m[v] = NoMeta THEN [pl EXCEPT ![v] = FALSE] ELSE pl

\* createVolumeMetadataRollback, lines 424-426: the metadata file is unlinked
\* when it exists.
createVolumeMetadataRollback(m, v) ==
    IF m[v] # NoMeta THEN [m EXCEPT ![v] = NoMeta] ELSE m

CreateRecoveries ==
    [name : {"halfbakedVolumeRollback", "createVolumeMetadataRollback"},
     vol : RollbackVols]

\* The task runs the recovery on top of its stack (LIFO).
RunRecovery ==
    /\ op.kind = "rollback"
    /\ recoveries # <<>>
    /\ LET r == recoveries[Len(recoveries)]
       IN  /\ recoveries' = SubSeq(recoveries, 1, Len(recoveries) - 1)
           /\ IF r.name = "halfbakedVolumeRollback"
              THEN /\ payload' = halfbakedVolumeRollback(payload, meta, r.vol)
                   /\ UNCHANGED meta
              ELSE /\ meta' = createVolumeMetadataRollback(meta, r.vol)
                   /\ UNCHANGED payload
           /\ op' = [op EXCEPT !.out = r.name, !.cur = r.vol,
                               !.at = IF <<payload', meta'>> = <<payload, meta>>
                                      THEN "kept" ELSE "unlinked"]
    /\ UNCHANGED <<lease, dl, faults, nops, synced, dest, gc, fs, procs>>

\* A creation has failed at any point: each volume has its payload or not,
\* its metadata file or not, and the task holds any recoveries of creations.
InitRollback ==
    /\ meta \in {m \in [Ids \cup {TMPL} ->
                          {NoMeta, TemplateMeta, newMeta(BLANK_UUID, "RAW")}] :
                    /\ m[TMPL] = TemplateMeta
                    /\ \A v \in RollbackVols : m[v] # TemplateMeta
                    /\ \A v \in Ids \ RollbackVols : m[v] = NoMeta}
    /\ payload \in {f \in [Ids \cup {TMPL} -> BOOLEAN] :
                       /\ f[TMPL]
                       /\ \A v \in Ids \ RollbackVols : ~f[v]}
    /\ lease = [v \in Ids \cup {TMPL} |-> FALSE]
    /\ \E n \in 0..MaxRecoveries : recoveries \in [1..n -> CreateRecoveries]
    /\ op = [OpIdle EXCEPT !.kind = "rollback"]
    /\ dl = DlIdle
    /\ faults = 0
    /\ nops = 0
    /\ synced = FALSE
    /\ dest = NoDest
    /\ gc = GcIdle
    /\ fs = NoFiles
    /\ procs = NoProcs

NextRollback == RunRecovery

SpecRollback == InitRollback /\ [][NextRollback]_vars

\* ------------------------------------------------- files of one volume
\* Inodes of the directory of the volume.
MaxInodes == 3
Inodes == 1..MaxInodes
\* The payload, the metadata file and the file _putMetadata writes.
Paths == {"vol", "meta", "meta.new"}

\* A directory without files; inode 0 is "no such file".
EmptyFs == [dir |-> [path \in Paths |-> 0], data |-> [i \in Inodes |-> <<>>],
            mode |-> [i \in Inodes |-> 0]]

\* The inodes in use: those a directory entry or an open file names.
OpenInodes == {procs[p].ino : p \in DOMAIN procs} \ {0}
UsedInodes(f) == {f.dir[path] : path \in Paths} \cup OpenInodes
FreeInode(f) == CHOOSE i \in Inodes \ UsedInodes(f) :
                    \A j \in Inodes \ UsedInodes(f) : i <= j

\* A file is made under the path with the content.
creat(f, path, content) ==
    [dir |-> [f.dir EXCEPT ![path] = FreeInode(f)],
     data |-> [f.data EXCEPT ![FreeInode(f)] = content],
     mode |-> f.mode]

\* The file under the path gets the content (written through the path).
writeTo(f, path, content) == [f EXCEPT !.data[f.dir[path]] = content]

\* ------------------------------------------- creation of a file volume
\* Creations of the same volume path that run at once.
MaxCreators == 2
Creators == 1..MaxCreators
\* RAW sparse, RAW preallocated, COW without and with a parent.
CreateKinds == {"RAW_SPARSE", "RAW_PREALLOCATED", "COW", "COW_CHILD"}

\* Capacity of the volumes that are created, in bytes.
CreateSize == 2
\* initial_size=None
None == <<>>
\* The values of initial_size: none, negative, 0, within the capacity and
\* above it.
InitialSizes == {None, <<-1>>, <<0>>, <<1>>, <<CreateSize + 1>>}
FILE_VOLUME_PERMISSIONS == 432
\* A mode that a tool leaves on the file (0o644).
OtherMode == 420

\* A creation that opens the payload without O_EXCL.
creatShared == FALSE

\* Line 522: creatExcl=True
creatExcl == TRUE

\* truncateFile(vol_path, size, mode, creatExcl): the file is made and sized;
\* with creatExcl an existing file is EEXIST, without it an existing file is
\* opened and cut to the size.
truncateFile(f, path, p, excl) ==
    IF f.dir[path] = 0
    THEN [creat(f, path, <<<<"truncate", p>>>>)
            EXCEPT !.mode[FreeInode(f)] = FILE_VOLUME_PERMISSIONS]
    ELSE IF excl THEN f
    ELSE writeTo(f, path, <<<<"truncate", p>>>>)

\* What the caller of createVolume gets: an InvalidParameterException that
\* _create raises arrives as VolumeCreationError
\* (test_volume_create_initial_size_not_supported,
\* test_volume_create_raw_prealloc_invalid_initial_size).
reportedAs(result) ==
    IF result = "InvalidParameterException" THEN "VolumeCreationError"
    ELSE result

creatorEnds(pr, p, result) ==
    [pr EXCEPT ![p].pc = "done", ![p].result = result,
               ![p].reported = reportedAs(result)]

\* Line 487: if initial_size
cowRefuses(initial_size) == initial_size # None /\ initial_size[1] # 0

\* Lines 449-462: alloc_size of a RAW volume
allocSize(pr) ==
    IF pr.initial_size = None THEN pr.size ELSE pr.initial_size[1]

\* createVolume(..., initial_size): a negative initial size is refused
\* before _create is called
\* (test_volume_create_raw_prealloc_invalid_initial_size); then the checks
\* of _create_raw_volume (lines 449-462) and of _create_cow_volume (lines
\* 487-490) come before the payload is touched.
CreateCheck(p) ==
    /\ procs[p].pc = "check"
    /\ LET given == procs[p].initial_size # None
           initial_size == procs[p].initial_size[1]
           raw == procs[p].kind \in {"RAW_SPARSE", "RAW_PREALLOCATED"}
       IN  procs' =
             IF given /\ initial_size < 0
             THEN [procs EXCEPT ![p].pc = "done",
                                ![p].result = "InvalidParameterException",
                                ![p].reported = "InvalidParameterException"]
             ELSE IF raw /\ given /\ procs[p].kind = "RAW_SPARSE"
             THEN creatorEnds(procs, p, "InvalidParameterException")
             ELSE IF raw /\ given /\ initial_size > procs[p].size
             THEN creatorEnds(procs, p, "InvalidParameterException")
             ELSE IF ~raw /\ cowRefuses(procs[p].initial_size)
             THEN creatorEnds(procs, p, "InvalidParameterException")
             ELSE [procs EXCEPT ![p].pc = "truncate"]
    /\ UNCHANGED <<meta, payload, lease, recoveries, op, dl, faults, nops,
                   synced, dest, gc, fs>>

\* _truncate_volume (lines 518-527), the first thing _create_raw_volume and
\* _create_cow_volume do to the payload: EEXIST is VolumeAlreadyExists, any
\* other OSError is raised as it is.
TruncateVolume(p) ==
    /\ procs[p].pc = "truncate"
    /\ \/ /\ creatExcl /\ fs.dir["vol"] # 0
          /\ procs' = creatorEnds(procs, p, "VolumeAlreadyExists")
          /\ UNCHANGED fs
          /\ NoFault
       \/ /\ ~(creatExcl /\ fs.dir["vol"] # 0)
          /\ fs' = truncateFile(fs, "vol", p, creatExcl)
          /\ procs' = [procs EXCEPT ![p].pc = "fill", ![p].created = TRUE]
          /\ NoFault
       \/ /\ fs.dir["vol"] = 0
          /\ procs' = creatorEnds(procs, p, "OSError")
          /\ UNCHANGED fs
          /\ Fault
    /\ UNCHANGED <<meta, payload, lease, recoveries, op, dl, nops, synced, dest,
                   gc>>

\* Lines 468-469 and 495-510: a preallocated RAW volume is allocated when
\* alloc_size is not 0, a COW volume gets its qcow2 header (qemuimg.create,
\* or clone of the parent); a sparse RAW volume is left as truncated.  The
\* tool may leave another mode on the file (comment of lines 474-475).
FillVolume(p) ==
    /\ procs[p].pc = "fill"
    /\ LET what == IF procs[p].kind = "RAW_PREALLOCATED"
                   THEN IF allocSize(procs[p]) # 0 THEN "fallocate"
                        ELSE "none"
                   ELSE IF procs[p].kind = "COW" THEN "qcow2"
                   ELSE IF procs[p].kind = "COW_CHILD" THEN "clone"
                   ELSE "none"
       IN  \/ /\ fs' = IF what = "none" \/ fs.dir["vol"] = 0 THEN fs
                        ELSE writeTo(fs, "vol",
                                 Append(fs.data[fs.dir["vol"]], <<what, p>>))
              /\ procs' = [procs EXCEPT ![p].pc = "chmod"]
              /\ NoFault
           \/ /\ what # "none" /\ fs.dir["vol"] # 0
              /\ fs' = [writeTo(fs, "vol",
                                Append(fs.data[fs.dir["vol"]], <<what, p>>))
                          EXCEPT !.mode[fs.dir["vol"]] = OtherMode]
              /\ procs' = [procs EXCEPT ![p].pc = "chmod"]
              /\ NoFault
           \/ /\ what # "none"
              /\ procs' = creatorEnds(procs, p,
                              IF what = "fallocate" THEN "VolumesZeroingError"
                              ELSE "Exception")
              /\ UNCHANGED fs
              /\ Fault
    /\ UNCHANGED <<meta, payload, lease, recoveries, op, dl, nops, synced, dest,
                   gc>>

\* A chmod that leaves the mode the tools have left.
modeKept(mode) == OtherMode

\* Line 546: os.chmod(vol_path, sc.FILE_VOLUME_PERMISSIONS)
setMode(mode) == mode

\* _set_permissions (lines 543-546), then return (vol_path,)
SetPermissions(p) ==
    /\ procs[p].pc = "chmod"
    /\ \/ /\ fs' = IF fs.dir["vol"] = 0 THEN fs
                   ELSE [writeTo(fs, "vol",
                            Append(fs.data[fs.dir["vol"]], <<"chmod", p>>))
                           EXCEPT !.mode[fs.dir["vol"]] =
                                     setMode(FILE_VOLUME_PERMISSIONS)]
          /\ procs' = creatorEnds(procs, p, "ok")
          /\ NoFault
       \/ /\ procs' = creatorEnds(procs, p, "OSError")
          /\ UNCHANGED fs
          /\ Fault
    /\ UNCHANGED <<meta, payload, lease, recoveries, op, dl, nops, synced, dest,
                   gc>>

\* The payload is there already (left by an earlier creation) or not; every
\* creator is about to create the same volume path.
InitCreate ==
    /\ fs \in {EmptyFs,
                [EmptyFs EXCEPT !.dir["vol"] = 1,
                                !.data[1] = <<<<"truncate", 0>>>>,
                                !.mode[1] = FILE_VOLUME_PERMISSIONS]}
    /\ procs \in [Creators -> [pc : {"truncate"}, kind : CreateKinds,
                                created : {FALSE}, result : {"none"},
                                ino : {0}, initial_size : {None},
                                size : {CreateSize}, reported : {"none"}]]
    /\ meta = [v \in Ids \cup {TMPL} |-> IF v = TMPL THEN TemplateMeta ELSE NoMeta]
    /\ payload = [v \in Ids \cup {TMPL} |-> v = TMPL]
    /\ lease = [v \in Ids \cup {TMPL} |-> FALSE]
    /\ recoveries = <<>>
    /\ op = OpIdle
    /\ dl = DlIdle
    /\ faults = 0
    /\ nops = 0
    /\ synced = FALSE
    /\ dest = NoDest
    /\ gc = GcIdle

NextCreate ==
    \/ \E p \in Creators : TruncateVolume(p)
    \/ \E p \in Creators : FillVolume(p)
    \/ \E p \in Creators : SetPermissions(p)

SpecCreate == InitCreate /\ [][NextCreate]_vars

\* One creation of a volume path, with any initial_size; the payload is
\* there already or not.
InitPayload ==
    /\ fs \in {EmptyFs,
                [EmptyFs EXCEPT !.dir["vol"] = 1,
                                !.data[1] = <<<<"truncate", 0>>>>,
                                !.mode[1] = FILE_VOLUME_PERMISSIONS]}
    /\ procs \in [{1} -> [pc : {"check"}, kind : CreateKinds,
                           created : {FALSE}, result : {"none"},
                           ino : {0}, initial_size : InitialSizes,
                           size : {CreateSize}, reported : {"none"}]]
    /\ meta = [v \in Ids \cup {TMPL} |-> IF v = TMPL THEN TemplateMeta ELSE NoMeta]
    /\ payload = [v \in Ids \cup {TMPL} |-> v = TMPL]
    /\ lease = [v \in Ids \cup {TMPL} |-> FALSE]
    /\ recoveries = <<>>
    /\ op = OpIdle
    /\ dl = DlIdle
    /\ faults = 0
    /\ nops = 0
    /\ synced = FALSE
    /\ dest = NoDest
    /\ gc = GcIdle

NextPayload ==
    \/ CreateCheck(1)
    \/ TruncateVolume(1)
    \/ FillVolume(1)
    \/ SetPermissions(1)

SpecPayload == InitPayload /\ [][NextPayload]_vars

\* ------------------------------------- metadata file of a file volume
\* Calls of setMetadata in one behaviour.
MaxWrites == 2
\* Pieces a metadata record is written and read in.
RecordChunks == 2

\* The record of version k as it is stored: every piece carries the version.
record(k) == [i \in 1..RecordChunks |-> k]
Complete(content) == \E k \in 0..MaxWrites : content = record(k)

\* A _putMetadata that writes into the metadata file itself.
tmpInPlace == "meta"

\* Line 255: metaPath + ".new"
tmpMetaPath == "meta.new"

WriterIdle == [pc |-> "idle", ino |-> 0, ver |-> 0, committed |-> 0,
               result |-> "none"]
ReaderIdle == [pc |-> "idle", ino |-> 0, got |-> <<>>, result |-> "none"]

\* setMetadata, lines 223-227: every exception of _putMetadata is raised as
\* VolumeMetadataWriteError.
putFails(pr) ==
    [pr EXCEPT !.writer.pc = "idle", !.writer.ino = 0,
               !.writer.result = "VolumeMetadataWriteError"]

\* setMetadata is called with the next version of the record; lines 250-253:
\* the record is formatted (storage_format can raise).
SetMetadata ==
    /\ procs.writer.pc = "idle"
    /\ procs.writer.ver < MaxWrites
    /\ \/ /\ procs' = [procs EXCEPT !.writer.pc = "open",
                                      !.writer.ver = @ + 1,
                                      !.writer.result = "none"]
          /\ NoFault
       \/ /\ procs' = [putFails(procs) EXCEPT !.writer.ver = @ + 1]
          /\ Fault
    /\ UNCHANGED <<meta, payload, lease, recoveries, op, dl, nops, synced, dest,
                   gc, fs>>

\* Line 255: open(metaPath + ".new", "w") makes the file or cuts it to
\* nothing.
PutOpen ==
    /\ procs.writer.pc = "open"
    /\ \/ /\ fs.dir[tmpMetaPath] # 0 \/ Inodes \ UsedInodes(fs) # {}
          /\ fs' = IF fs.dir[tmpMetaPath] = 0
                   THEN creat(fs, tmpMetaPath, <<>>)
                   ELSE writeTo(fs, tmpMetaPath, <<>>)
          /\ procs' = [procs EXCEPT !.writer.pc = "write",
                                      !.writer.ino = fs'.dir[tmpMetaPath]]
          /\ NoFault
       \/ /\ procs' = putFails(procs)
          /\ UNCHANGED fs
          /\ Fault
    /\ UNCHANGED <<meta, payload, lease, recoveries, op, dl, nops, synced, dest,
                   gc>>

\* Line 256: f.write(data), piece by piece; after the last piece the file is
\* closed.
PutWrite ==
    /\ procs.writer.pc = "write"
    /\ LET i == procs.writer.ino
       IN  \/ /\ fs' = [fs EXCEPT !.data[i] = Append(@, procs.writer.ver)]
              /\ procs' = IF Len(fs'.data[i]) >= RecordChunks
                          THEN [procs EXCEPT !.writer.pc = "rename",
                                             !.writer.ino = 0]
                          ELSE procs
              /\ NoFault
           \/ /\ procs' = putFails(procs)
              /\ UNCHANGED fs
              /\ Fault
    /\ UNCHANGED <<meta, payload, lease, recoveries, op, dl, nops, synced, dest,
                   gc>>

\* os.rename(old, new): the entry of new names the file of old, the entry of
\* old is gone; old = new changes nothing.
osRename(f, old, new) ==
    IF old = new THEN f
    ELSE [f EXCEPT !.dir[new] = f.dir[old], !.dir[old] = 0]

\* Line 258: os.rename(metaPath + ".new", metaPath)
PutRename ==
    /\ procs.writer.pc = "rename"
    /\ \/ /\ fs' = osRename(fs, tmpMetaPath, "meta")
          /\ procs' = [procs EXCEPT !.writer.pc = "idle",
                                      !.writer.result = "ok",
                                      !.writer.committed = procs.writer.ver]
          /\ NoFault
       \/ /\ procs' = putFails(procs)
          /\ UNCHANGED fs
          /\ Fault
    /\ UNCHANGED <<meta, payload, lease, recoveries, op, dl, nops, synced, dest,
                   gc>>

\* getMetadata, lines 152-158: directReadLines opens the metadata file; an
\* error is raised as VolumeMetadataReadError.
GetOpen ==
    /\ procs.reader.pc = "idle"
    /\ procs' = IF fs.dir["meta"] = 0
                THEN [procs EXCEPT !.reader.pc = "done",
                                   !.reader.result = "VolumeMetadataReadError"]
                ELSE [procs EXCEPT !.reader.pc = "read",
                                   !.reader.ino = fs.dir["meta"],
                                   !.reader.got = <<>>]
    /\ UNCHANGED <<meta, payload, lease, recoveries, op, dl, faults, nops,
                   synced, dest, gc, fs>>

\* The file is read piece by piece up to its end; then (line 160) the lines
\* are parsed.
GetRead ==
    /\ procs.reader.pc = "read"
    /\ LET content == fs.data[procs.reader.ino]
           got == procs.reader.got
       IN  procs' = IF Len(got) < Len(content)
                    THEN [procs EXCEPT
                            !.reader.got = Append(got, content[Len(got) + 1])]
                    ELSE [procs EXCEPT !.reader.pc = "done",
                                       !.reader.ino = 0,
                                       !.reader.result = "ok"]
    /\ UNCHANGED <<meta, payload, lease, recoveries, op, dl, faults, nops,
                   synced, dest, gc, fs>>

\* The volume has its metadata file with the record of version 0.
InitMeta ==
    /\ fs = [EmptyFs EXCEPT !.dir["meta"] = 1, !.data[1] = record(0)]
    /\ procs = [writer |-> WriterIdle, reader |-> ReaderIdle]
    /\ meta = [v \in Ids \cup {TMPL} |-> IF v = TMPL THEN TemplateMeta ELSE NoMeta]
    /\ payload = [v \in Ids \cup {TMPL} |-> v = TMPL]
    /\ lease = [v \in Ids \cup {TMPL} |-> FALSE]
    /\ recoveries = <<>>
    /\ op = OpIdle
    /\ dl = DlIdle
    /\ faults = 0
    /\ nops = 0
    /\ synced = FALSE
    /\ dest = NoDest
    /\ gc = GcIdle

NextMeta ==
    \/ SetMetadata
    \/ PutOpen
    \/ PutWrite
    \/ PutRename
    \/ GetOpen
    \/ GetRead

SpecMeta == InitMeta /\ [][NextMeta]_vars

\* ------------------------------------------ FileVolume.rename by stages
\* The two names of a rename: the volume's and the new one.
RenameVols == 1..2
\* The files of a file volume in the order rename takes them.
RenameFiles == <<"payload", "meta", "lease">>

\* The path of one file of volume v exists.
hasFile(files, file, v) ==
    CASE file = "payload" -> files[2][v]
      [] file = "meta" -> files[1][v] # NoMeta
      [] file = "lease" -> files[3][v]

\* os.rename(old, new) of one file of a volume, on <<meta, payload, lease>>.
renameFile(files, file, old, new) ==
    CASE file = "payload" ->
             <<files[1], [files[2] EXCEPT ![new] = TRUE, ![old] = FALSE],
               files[3]>>
      [] file = "meta" ->
             <<[files[1] EXCEPT ![new] = files[1][old], ![old] = NoMeta],
               files[2], files[3]>>
      [] file = "lease" ->
             <<files[1], files[2],
               [files[3] EXCEPT ![new] = TRUE, ![old] = FALSE]>>

\* A rollback that leaves the files where they are.
renameRollbackSkipped(files, r) == files

\* Lines 628-637: os.rename(oldPath, newPath); every exception (here: no
\* file at oldPath) is logged and dropped.
renameVolumeRollback(files, r) ==
    IF hasFile(files, r.file, r.old)
    THEN renameFile(files, r.file, r.old, r.new)
    ELSE files

\* Position of rename: before the push or the os.rename of a file.
renameNext(o) ==
    IF o.rm = <<>> THEN [o EXCEPT !.pc = "renameLease"]
    ELSE [o EXCEPT !.pc = "push"]

\* Lines 651-656, 659-664, 667-672: with recovery set, the recovery of the
\* next file is pushed; its arguments are the new path and the old path.
RenamePush ==
    /\ op.kind = "rename" /\ op.pc = "push"
    /\ recoveries' = IF op.variant = "recovery"
                     THEN Append(recoveries,
                                 [name |-> "renameVolumeRollback",
                                  file |-> Head(op.rm),
                                  old |-> op.tmp, new |-> op.cur])
                     ELSE recoveries
    /\ op' = [op EXCEPT !.pc = "rename"]
    /\ UNCHANGED <<meta, payload, lease, dl, faults, nops, synced, dest, gc, fs,
                   procs>>

\* Lines 657-658, 665-666, 673-678: os.rename of the next file.  It raises
\* when the file is missing, except for the lease (ENOENT is passed over).
RenameFile ==
    /\ op.kind = "rename" /\ op.pc = "rename"
    /\ LET file == Head(op.rm)
           files == <<meta, payload, lease>>
       IN  \/ /\ hasFile(files, file, op.cur)
              /\ LET moved == renameFile(files, file, op.cur, op.tmp)
                 IN  /\ meta' = moved[1]
                     /\ payload' = moved[2]
                     /\ lease' = moved[3]
              /\ op' = renameNext([op EXCEPT !.rm = Tail(@)])
              /\ NoFault
           \/ /\ ~hasFile(files, file, op.cur)
              /\ op' = IF file = "lease"
                       THEN renameNext([op EXCEPT !.rm = Tail(@)])
                       ELSE [op EXCEPT !.pc = "failed", !.at = file]
              /\ UNCHANGED <<meta, payload, lease>>
              /\ NoFault
           \/ /\ op' = [op EXCEPT !.pc = "failed", !.at = file]
              /\ UNCHANGED <<meta, payload, lease>>
              /\ Fault
    /\ UNCHANGED <<recoveries, dl, nops, synced, dest, gc, fs, procs>>

\* Lines 681-685: self.renameLease(...), then the manifest takes the new
\* name.
RenameLease ==
    /\ op.kind = "rename" /\ op.pc = "renameLease"
    /\ \/ /\ op' = [op EXCEPT !.pc = "done"]
          /\ NoFault
       \/ /\ op' = [op EXCEPT !.pc = "failed", !.at = "renameLease"]
          /\ Fault
    /\ UNCHANGED <<meta, payload, lease, recoveries, dl, nops, synced, dest, gc,
                   fs, procs>>

\* rename has raised: the task runs the recovery on top of its stack.
RenameRollback ==
    /\ op.kind = "rename" /\ op.pc = "failed"
    /\ recoveries # <<>>
    /\ LET back == renameVolumeRollback(<<meta, payload, lease>>,
                                        recoveries[Len(recoveries)])
       IN  /\ meta' = back[1]
           /\ payload' = back[2]
           /\ lease' = back[3]
    /\ recoveries' = SubSeq(recoveries, 1, Len(recoveries) - 1)
    /\ UNCHANGED <<op, dl, faults, nops, synced, dest, gc, fs, procs>>

\* rename(newUUID, recovery) is called for a volume with any of its files on
\* disk; nothing has the new name.
InitRename ==
    /\ \E v \in RenameVols, w \in RenameVols, r \in BOOLEAN :
          /\ v # w
          /\ \E m \in {NoMeta, newMeta(BLANK_UUID, "RAW")} :
                meta = [u \in Ids \cup {TMPL} |->
                          IF u = TMPL THEN TemplateMeta
                          ELSE IF u = v THEN m ELSE NoMeta]
          /\ \E b \in BOOLEAN :
                payload = [u \in Ids \cup {TMPL} |-> u = TMPL \/ (u = v /\ b)]
          /\ \E b \in BOOLEAN :
                lease = [u \in Ids \cup {TMPL} |-> u = v /\ b]
          /\ op = [OpIdle EXCEPT !.kind = "rename", !.pc = "push",
                                 !.cur = v, !.tmp = w, !.rm = RenameFiles,
                                 !.variant = IF r THEN "recovery"
                                             ELSE "norecovery",
                                 !.src0 = <<meta, payload, lease>>]
    /\ recoveries = <<>>
    /\ dl = DlIdle
    /\ faults = 0
    /\ nops = 0
    /\ synced = FALSE
    /\ dest = NoDest
    /\ gc = GcIdle
    /\ fs = NoFiles
    /\ procs = NoProcs

NextRename ==
    \/ RenamePush
    \/ RenameFile
    \/ RenameLease
    \/ RenameRollback

SpecRename == InitRename /\ [][NextRename]_vars

\* ----------------------------- syncVolumeChain and reconcileVolumeChain
\* Length of the chains that are synchronised.
MaxSyncChain == 4

\* The volumes of a chain that a set holds, in the order of the chain.
restrictChain(chain, vols) ==
    LET Kept(v) == v \in vols IN SelectSeq(chain, Kept)

\* reconcileVolumeChain, lines 1264-1289.  qemuChain is what the walk over
\* the backing files finds, the leaf last.  An ILLEGAL leaf is taken out of
\* it; actualVolumes[-1] of an empty list raises IndexError.
reconcileVolumeChain(m, pl, leafVolUUID, qemuChain) ==
    LET actualVolumes ==
            IF m[leafVolUUID].legality = "ILLEGAL"
            THEN restrictChain(qemuChain, Elems(qemuChain) \ {leafVolUUID})
            ELSE qemuChain
    IN  IF actualVolumes = <<>>
        THEN [meta |-> m, actualVolumes |-> actualVolumes,
              result |-> "IndexError"]
        ELSE [meta |-> syncVolumeChain(m, pl,
                                       actualVolumes[Len(actualVolumes)],
                                       Elems(actualVolumes)),
              actualVolumes |-> actualVolumes, result |-> "ok"]

\* reconcileVolumeChain(sdUUID, imgUUID, leafVolUUID) of an offline image:
\* qemu-img reports backing files that lead from the leaf through some of
\* the volumes of the stored chain.
ReconcileVolumeChain(leafVolUUID, qemuVols) ==
    /\ Begin
    /\ produces(meta, payload, leafVolUUID)
    /\ LET g == getChain(meta, payload, "img", leafVolUUID, leafVolUUID)
       IN  /\ g.result = "ok"
           /\ leafVolUUID \in qemuVols
           /\ qemuVols \subseteq Elems(g.chain)
           /\ LET r == reconcileVolumeChain(meta, payload, leafVolUUID,
                                            restrictChain(g.chain, qemuVols))
              IN  /\ meta' = r.meta
                  /\ op' = [OpIdle EXCEPT !.kind = "reconcile",
                                          !.out = r.result,
                                          !.cur = leafVolUUID,
                                          !.chain = r.actualVolumes,
                                          !.rm = g.chain,
                                          !.src0 = <<meta, payload, lease>>]
    /\ UNCHANGED <<payload, lease, recoveries, dl, faults, synced, dest, gc, fs,
                   procs>>

\* syncVolumeChain(sdUUID, imgUUID, volUUID, actualChain) called after a live
\* merge with the chain the running qemu reports: some or all of the
\* volumes of the stored chain.
SyncVolumeChainCall(volUUID, actualVols) ==
    /\ Begin
    /\ produces(meta, payload, volUUID)
    /\ LET g == getChain(meta, payload, "img", volUUID, volUUID)
       IN  /\ g.result = "ok"
           /\ actualVols # {}
           /\ actualVols \subseteq Elems(g.chain)
           /\ op' = [OpIdle EXCEPT !.kind = "sync", !.out = "ok",
                                   !.cur = volUUID,
                                   !.chain = restrictChain(g.chain, actualVols),
                                   !.rm = g.chain,
                                   !.src0 = <<meta, payload, lease>>]
    /\ meta' = syncVolumeChain(meta, payload, volUUID, actualVols)
    /\ UNCHANGED <<payload, lease, recoveries, dl, faults, synced, dest, gc, fs,
                   procs>>

\* An image that is one chain of legal volumes.
InitSync ==
    /\ \E n \in 1..MaxSyncChain, puuid \in {BLANK_UUID, TMPL},
          format \in {"RAW", "COW"} :
          /\ puuid = TMPL => format = "COW"
          /\ meta = chainMeta(n, puuid, format)
    /\ payload = [v \in Ids \cup {TMPL} |-> meta[v] # NoMeta]
    /\ lease = [v \in Ids \cup {TMPL} |-> meta[v] # NoMeta]
    /\ recoveries = <<>>
    /\ op = OpIdle
    /\ dl = DlIdle
    /\ faults = 0
    /\ nops = 0
    /\ synced = FALSE
    /\ dest = NoDest
    /\ gc = GcIdle
    /\ fs = NoFiles
    /\ procs = NoProcs

NextSync ==
    \/ \E leafVolUUID \in ImgVols, qemuVols \in SUBSET ImgVols :
          ReconcileVolumeChain(leafVolUUID, qemuVols)
    \/ \E volUUID \in ImgVols, actualVols \in SUBSET ImgVols :
          SyncVolumeChainCall(volUUID, actualVols)

SpecSync == InitSync /\ [][NextSync]_vars

\* ------------------------------- Image.move onto an existing destination
\* The image as an earlier copy or a broken operation has left it on the
\* destination: the first k volumes of a chain, each LEGAL, ILLEGAL or FAKE.
destImage(k, puuid, format, legality) ==
    [v \in Ids \cup {TMPL} |->
        IF v \in 1..k
        THEN [chainMeta(k, puuid, format)[v] EXCEPT !.legality = legality[v]]
        ELSE chainMeta(k, puuid, format)[v]]

InitMove ==
    /\ \E n \in 1..MaxChain, puuid \in {BLANK_UUID, TMPL},
          format \in {"RAW", "COW"} :
          /\ puuid = TMPL => format = "COW"
          /\ meta = chainMeta(n, puuid, format)
          /\ \E k \in 0..n,
                legality \in [1..MaxChain -> {"LEGAL", "ILLEGAL", "FAKE"}] :
                /\ \A v \in (k + 1)..MaxChain : legality[v] = "LEGAL"
                /\ dest = [meta |-> destImage(k, puuid, format, legality),
                           copied |-> 1..k]
    /\ payload = [v \in Ids \cup {TMPL} |-> meta[v] # NoMeta]
    /\ lease = [v \in Ids \cup {TMPL} |-> meta[v] # NoMeta]
    /\ recoveries = <<>>
    /\ op = OpIdle
    /\ dl = DlIdle
    /\ faults = 0
    /\ nops = 0
    /\ synced = FALSE
    /\ gc = GcIdle
    /\ fs = NoFiles
    /\ procs = NoProcs

NextMove ==
    \/ \E mop \in {"COPY", "MOVE"}, force \in BOOLEAN, readable \in BOOLEAN :
          Move(mop, force, readable)
    \/ MoveDeleteDest
    \/ CreateTargetImage
    \/ InterImagesCopy
    \/ FinalizeDestinationImage
    \/ MoveClearRecoveries
    \/ MoveDeleteSource
    \/ MoveReturn

SpecMove == InitMove /\ [][NextMove]_vars

\* --------------------------- _createTargetImage: the destination volumes
BLOCK_SIZE_512 == 512
\* Apparent sizes of the source volumes, in bytes, and their capacity.
ApparentSizes == {1, BLOCK_SIZE_512, BLOCK_SIZE_512 + 1}
Capacity == 2 * BLOCK_SIZE_512

\* utils.round(n, size): n rounded up to a multiple of size.
round(n, size) == ((n + size - 1) \div size) * size

\* A _createTargetImage that creates every volume sparse.
tmpVolSparse(supportsSparseness, volFormat) == "SPARSE"

\* Lines 377-381
tmpVolPreallocation(supportsSparseness, volFormat) ==
    IF supportsSparseness \/ volFormat # "RAW" THEN "SPARSE"
    ELSE "PREALLOCATED"

NoVol == [type |-> "NONE", created |-> "NONE", size |-> 0]
TargetIdle == [pc |-> "acquire", dstChain |-> <<>>, result |-> "none",
               ino |-> 0]

\* Lines 337-350: pimg is the image of the parent of the first volume of the
\* source chain (the template's image), BLANK_UUID for a standalone chain; a
\* fake template is made on a backup domain.
\* Images have names in this model; BLANK_IMAGE is BLANK_UUID as an image.
BLANK_IMAGE == "blank"
pimg == IF getParent(meta, op.chain[1]) = BLANK_UUID THEN BLANK_IMAGE
        ELSE meta[getParent(meta, op.chain[1])].image
fakeTemplate == pimg # BLANK_IMAGE /\ dest.isBackup

\* A with statement that keeps the resource when it is left.
releaseSkipped(locks, res) == locks

\* Leaving the with statement of lines 362-363 releases what it acquired.
releaseResource(locks, res) == locks \ {[res |-> res, mode |-> "SHARED"]}

\* Lines 360-363: rm.acquireResource(dstImageResourcesNamespace, pimg,
\* rm.SHARED) when pimg is not BLANK_UUID, justLogIt otherwise.  An acquire
\* that raises leaves _createTargetImage with nothing held.
TargetAcquire ==
    /\ procs.pc = "acquire"
    /\ \/ /\ dest' = IF pimg # BLANK_IMAGE
                     THEN [dest EXCEPT !.locks =
                             @ \cup {[res |-> pimg, mode |-> "SHARED"]}]
                     ELSE dest
          /\ procs' = [procs EXCEPT !.pc = IF fakeTemplate THEN "fakeTemplate"
                                           ELSE "createVolume"]
          /\ NoFault
       \/ /\ pimg # BLANK_IMAGE
          /\ procs' = [procs EXCEPT !.pc = "raised",
                                    !.result = "ResourceException"]
          /\ UNCHANGED dest
          /\ Fault
    /\ UNCHANGED <<meta, payload, lease, recoveries, op, dl, nops, synced, gc,
                   fs>>

\* Lines 364-365 and createFakeTemplate (246-288): the fake template is
\* created; an error of its creation is logged and dropped.
TargetFakeTemplate ==
    /\ procs.pc = "fakeTemplate"
    /\ \/ /\ dest' = [dest EXCEPT !.fake = TRUE]
          /\ NoFault
       \/ /\ UNCHANGED dest
          /\ Fault
    /\ procs' = [procs EXCEPT !.pc = "createVolume"]
    /\ UNCHANGED <<meta, payload, lease, recoveries, op, dl, nops, synced, gc,
                   fs>>

\* The with statement is left, by the return of line 421 or by an
\* exception.
TargetRelease ==
    /\ procs.pc \in {"done", "failed"}
    /\ dest' = [dest EXCEPT !.locks = releaseResource(@, pimg)]
    /\ procs' = [procs EXCEPT !.pc = IF procs.pc = "done" THEN "returned"
                                     ELSE "raised"]
    /\ UNCHANGED <<meta, payload, lease, recoveries, op, dl, faults, nops,
                   synced, gc, fs>>

\* The source volume the loop of line 369 is at.
srcVol == op.chain[Len(procs.dstChain) + 1]

\* Lines 415-418: an error leaves as StorageException or as
\* DestImageActionError.
targetFails(pr, k) ==
    [pr EXCEPT !.pc = "failed",
               !.result = IF k = "StorageException" THEN k
                          ELSE "DestImageActionError"]

\* Lines 383-395: destDom.createVolume with the parameters of the source
\* volume and preallocate=tmpVolPreallocation.
TargetCreateVolume ==
    /\ procs.pc = "createVolume"
    /\ \/ /\ LET tmp == tmpVolPreallocation(dest.supportsSparseness,
                                              meta[srcVol].format)
             IN  dest' = [dest EXCEPT !.vols[srcVol] =
                            [type |-> tmp, created |-> tmp,
                             size |-> meta[srcVol].capacity
                                         \div BLOCK_SIZE_512]]
          /\ procs' = [procs EXCEPT !.pc = "extend"]
          /\ NoFault
       \/ /\ \E k \in {"StorageException", "Exception"} :
                procs' = targetFails(procs, k)
          /\ UNCHANGED dest
          /\ Fault
    /\ UNCHANGED <<meta, payload, lease, recoveries, op, dl, nops, synced, gc,
                   fs>>

\* Lines 397-400: dstVol.extend(size_aligned // BLOCK_SIZE_512); extend
\* grows the storage of the volume to that many blocks.
TargetExtend ==
    /\ procs.pc = "extend"
    /\ \/ /\ LET size_aligned == round(meta[srcVol].apparentsize,
                                        BLOCK_SIZE_512)
                 new == size_aligned \div BLOCK_SIZE_512
             IN  dest' = [dest EXCEPT !.vols[srcVol].size =
                            IF new > @ THEN new ELSE @]
          /\ procs' = [procs EXCEPT !.pc = "setType"]
          /\ NoFault
       \/ /\ \E k \in {"StorageException", "Exception"} :
                procs' = targetFails(procs, k)
          /\ UNCHANGED dest
          /\ Fault
    /\ UNCHANGED <<meta, payload, lease, recoveries, op, dl, nops, synced, gc,
                   fs>>

\* Lines 405-409: a volume that was created sparse for a PREALLOCATED source
\* volume is made PREALLOCATED; the volume joins dstChain.
TargetSetType ==
    /\ procs.pc = "setType"
    /\ LET next == [procs EXCEPT
                      !.dstChain = Append(@, srcVol),
                      !.pc = IF Len(procs.dstChain) + 1 = Len(op.chain)
                             THEN "done" ELSE "createVolume",
                      !.result = IF Len(procs.dstChain) + 1 = Len(op.chain)
                                 THEN "ok" ELSE @]
       IN  IF meta[srcVol].prealloc = "PREALLOCATED"
              /\ dest.vols[srcVol].created # "PREALLOCATED"
           THEN \/ /\ dest' = [dest EXCEPT
                                  !.vols[srcVol].type = "PREALLOCATED"]
                   /\ procs' = next
                   /\ NoFault
                \/ /\ \E k \in {"StorageException", "Exception"} :
                         procs' = targetFails(procs, k)
                   /\ UNCHANGED dest
                   /\ Fault
           ELSE /\ procs' = next
                /\ UNCHANGED dest
                /\ NoFault
    /\ UNCHANGED <<meta, payload, lease, recoveries, op, dl, nops, synced, gc,
                   fs>>

\* _createTargetImage has the source chain (line 326); every source volume
\* has its format, its allocation type and its apparent size; the
\* destination domain supports sparseness or not and has no volume of the
\* image.
InitTarget ==
    /\ \E n \in 1..MaxChain, format \in {"RAW", "COW"},
          puuid \in {BLANK_UUID, TMPL},
          prealloc \in [1..MaxChain -> {"SPARSE", "PREALLOCATED"}],
          apparentsize \in [1..MaxChain -> ApparentSizes] :
          /\ puuid = TMPL => format = "COW"
          /\ \A v \in (n + 1)..MaxChain :
                prealloc[v] = "SPARSE" /\ apparentsize[v] = 1
          /\ meta = [v \in Ids \cup {TMPL} |->
                       IF v \in 1..n
                       THEN chainMeta(n, puuid, format)[v]
                            @@ [prealloc |-> prealloc[v],
                                apparentsize |-> apparentsize[v],
                                capacity |-> Capacity]
                       ELSE chainMeta(n, puuid, format)[v]]
          /\ op = [OpIdle EXCEPT !.kind = "createTarget",
                                 !.chain = [i \in 1..n |-> i]]
          /\ \E supportsSparseness \in BOOLEAN, isBackup \in BOOLEAN :
                /\ isBackup => puuid = TMPL
                /\ dest = [supportsSparseness |-> supportsSparseness,
                           isBackup |-> isBackup,
                           vols |-> [v \in Ids |-> NoVol],
                           fake |-> FALSE, locks |-> {}]
    /\ procs = TargetIdle
    /\ payload = [v \in Ids \cup {TMPL} |-> meta[v] # NoMeta]
    /\ lease = [v \in Ids \cup {TMPL} |-> meta[v] # NoMeta]
    /\ recoveries = <<>>
    /\ dl = DlIdle
    /\ faults = 0
    /\ nops = 0
    /\ synced = FALSE
    /\ gc = GcIdle
    /\ fs = NoFiles

NextTarget ==
    \/ TargetAcquire
    \/ TargetFakeTemplate
    \/ TargetRelease
    \/ TargetCreateVolume
    \/ TargetExtend
    \/ TargetSetType

SpecTarget == InitTarget /\ [][NextTarget]_vars

\* ------------------------------------------- capacity of a new snapshot
BLOCK_SIZE_4K == 4096
\* The capacities createVolume is called with, in bytes.
Capacities == {1, BLOCK_SIZE_4K, BLOCK_SIZE_4K + 1, 2 * BLOCK_SIZE_4K,
               2 * BLOCK_SIZE_4K + 1}

\* A createVolume that takes every capacity.
neverTooSmall(capacity, parentCapacity) == FALSE

\* Snapshot capacity must be >= parent capacity.
tooSmall(capacity, parentCapacity) == capacity < parentCapacity

\* The volumes there are, and the UUID the next one gets.
SnapVols == {v \in Ids : meta[v] # NoMeta}
NextVol == Cardinality(SnapVols) + 1

\* createVolume(capacity, srcVolUUID): the capacity is rounded up to 4K; a
\* snapshot that would be smaller than its parent is refused with
\* InvalidParameterException and nothing is made; otherwise the volume is
\* made with the rounded capacity and its parent becomes INTERNAL.
CreateSized(capacity, srcVolUUID) ==
    /\ Cardinality(SnapVols) < MaxChain
    /\ srcVolUUID = BLANK_UUID \/ srcVolUUID \in SnapVols
    /\ LET rounded == round(capacity, BLOCK_SIZE_4K)
           call == [capacity |-> capacity, srcVolUUID |-> srcVolUUID,
                    volUUID |-> NextVol, ino |-> 0]
       IN  IF srcVolUUID # BLANK_UUID
              /\ tooSmall(rounded, meta[srcVolUUID].capacity)
           THEN /\ procs' = call @@ [result |-> "InvalidParameterException"]
                /\ UNCHANGED <<meta, payload, lease>>
           ELSE /\ procs' = call @@ [result |-> "ok"]
                /\ meta' =
                      [IF srcVolUUID = BLANK_UUID THEN meta
                       ELSE setVolType(meta, srcVolUUID, "INTERNAL")
                         EXCEPT ![NextVol] =
                           newMeta(srcVolUUID,
                                   IF srcVolUUID = BLANK_UUID THEN "RAW"
                                   ELSE "COW")
                           @@ [capacity |-> rounded]]
                /\ payload' = [payload EXCEPT ![NextVol] = TRUE]
                /\ lease' = [lease EXCEPT ![NextVol] = TRUE]
    /\ UNCHANGED <<recoveries, op, dl, faults, nops, synced, dest, gc, fs>>

InitSnapshot ==
    /\ meta = [v \in Ids \cup {TMPL} |-> IF v = TMPL THEN TemplateMeta ELSE NoMeta]
    /\ payload = [v \in Ids \cup {TMPL} |-> v = TMPL]
    /\ lease = [v \in Ids \cup {TMPL} |-> FALSE]
    /\ procs = [capacity |-> 0, srcVolUUID |-> BLANK_UUID,
                volUUID |-> BLANK_UUID, ino |-> 0, result |-> "none"]
    /\ recoveries = <<>>
    /\ op = OpIdle
    /\ dl = DlIdle
    /\ faults = 0
    /\ nops = 0
    /\ synced = FALSE
    /\ dest = NoDest
    /\ gc = GcIdle
    /\ fs = NoFiles

NextSnapshot ==
    \E capacity \in Capacities, srcVolUUID \in {BLANK_UUID} \cup Ids :
       CreateSized(capacity, srcVolUUID)

SpecSnapshot == InitSnapshot /\ [][NextSnapshot]_vars

\* ------------------------------------------------- LVM command layer
\* LVMCache: the device filter cache, the read-only mode, the lock that
\* orders mode changes against commands, and the semaphore of running
\* commands.  `fs` holds the multipath devices of the host, `dest` the
\* LVMCache object, `procs` the calling threads.
MaxWorkers == 3
MAX_COMMANDS == 2
READ_ONLY_RETRIES == 3

Workers == 1 .. MaxWorkers
Setter == 0
NoThread == -1

\* fake_devices, the device added later, and a path that is no multipath
\* device.
InitialDevices == {"/dev/mapper/a", "/dev/mapper/b"}
MpDevices == InitialDevices \cup {"/dev/mapper/c"}
DevPaths == MpDevices \cup {"/dev/sda"}

\* A filter that lets every path through.
buildFilterOpen(devices) == <<[action |-> "a", paths |-> DevPaths]>>

\* _buildFilter(devices): '["a|^dev1$|^dev2$|", "r|.*|"]', and '["r|.*|"]'
\* when there is no device.  A rule is its action and the paths its
\* anchored patterns match.
buildFilter(devices) ==
    (IF devices = {} THEN <<>> ELSE <<[action |-> "a", paths |-> devices]>>)
      \o <<[action |-> "r", paths |-> DevPaths]>>

\* LVM takes the first rule that matches the path; a path no rule matches
\* is accepted.
accepts(filter, path) ==
    LET hits == {i \in DOMAIN filter : path \in filter[i].paths}
    IN  hits = {} \/ filter[CHOOSE i \in hits : \A j \in hits : i <= j].action = "a"

\* locking_type="4" if self._read_only else "1"
lockingType(read_only) == IF read_only THEN 4 ELSE 1

NoCmd == [filter |-> <<>>, locking_type |-> 0]

\* _addExtraCfg(cmd): the command line with the cached filter, which is
\* built from the multipath devices when it is stale.
cachedFilter(lc, devices) ==
    IF lc.filterStale THEN buildFilter(devices) ELSE lc.filter

addExtraCfg(lc, devices) ==
    [filter |-> cachedFilter(lc, devices),
     locking_type |-> lockingType(lc.read_only)]

\* A reader that passes a waiting writer.
sharedUnfair(lc) == lc.writer = NoThread

\* A shared request is granted at once when no writer holds the lock and
\* nobody waits; an exclusive one when nobody holds it and nobody waits.
sharedFree(lc) == lc.writer = NoThread /\ lc.waiters = <<>>
exclusiveFree(lc) ==
    lc.writer = NoThread /\ lc.readers = {} /\ lc.waiters = <<>>

\* The lock is handed over when it is left, in the order of the requests:
\* to the waiting set_read_only when nobody holds the lock, else to the
\* commands that wait in front of it.
handOver(lc) ==
    LET w == lc.waiters
        first == IF \E i \in DOMAIN w : w[i] = Setter
                 THEN CHOOSE i \in DOMAIN w :
                        w[i] = Setter /\ \A j \in 1 .. i - 1 : w[j] # Setter
                 ELSE Len(w) + 1
    IN  IF lc.writer # NoThread \/ w = <<>> THEN lc
        ELSE IF first = 1
        THEN IF lc.readers = {}
             THEN [lc EXCEPT !.writer = Setter, !.waiters = Tail(w)]
             ELSE lc
        ELSE [lc EXCEPT !.readers = @ \cup {w[i] : i \in 1 .. first - 1},
                        !.waiters = SubSeq(w, first, Len(w))]

\* A semaphore that never blocks.
semUnbounded(sem) == TRUE

\* BoundedSemaphore(MAX_COMMANDS)
semFree(sem) == sem < MAX_COMMANDS

\* A command that is run again whatever the rebuilt filter is.
widerAlways(wider_cmd, full_cmd) == TRUE

\* The command is run again only if the rebuilt filter changed it.
widerDiffers(wider_cmd, full_cmd) == wider_cmd # full_cmd

\* One retry too many.
retriesLeftOneMore(retry) == retry < READ_ONLY_RETRIES + 1

\* for retry in range(1, READ_ONLY_RETRIES + 1)
retriesLeft(retry) == retry < READ_ONLY_RETRIES

ThreadIdle ==
    [pc |-> "idle", full_cmd |-> NoCmd, calls |-> <<>>, rc |-> 0,
     stage |-> "none", retry |-> 0, value |-> FALSE, result |-> <<>>]

\* A new multipath device appears on the host.
AddDevice ==
    /\ \E d \in MpDevices \ fs.devices :
          fs' = [fs EXCEPT !.devices = @ \cup {d}]
    /\ UNCHANGED <<meta, payload, lease, recoveries, op, dl, faults, nops,
                   synced, dest, gc, procs>>

\* The shared lock is taken: full_cmd = self._addExtraCfg(cmd), which
\* builds the cached filter when it is stale, and the command waits for the
\* semaphore.
started(lc, th, devices) ==
    [th EXCEPT !.full_cmd = addExtraCfg(lc, devices), !.stage = "first",
               !.pc = "sem"]

\* A thread calls cmd(cmd) once: take the shared lock, or wait for it
\* behind the waiters.
Cmd(t) ==
    /\ procs[t].pc = "idle"
    /\ procs[t].result = <<>>
    /\ IF sharedFree(dest)
       THEN /\ dest' = [dest EXCEPT !.readers = @ \cup {t},
                                    !.filter = cachedFilter(dest, fs.devices),
                                    !.filterStale = FALSE]
            /\ procs' = [procs EXCEPT ![t] = started(dest, @, fs.devices)]
       ELSE /\ dest' = [dest EXCEPT !.waiters = Append(@, t)]
            /\ procs' = [procs EXCEPT ![t].pc = "waitShared"]
    /\ UNCHANGED <<meta, payload, lease, recoveries, op, dl, faults, nops,
                   synced, gc, fs>>

\* A waiting command goes on when the shared lock was handed to it.
AcquireShared(t) ==
    /\ procs[t].pc = "waitShared"
    /\ t \in dest.readers
    /\ dest' = [dest EXCEPT !.filter = cachedFilter(dest, fs.devices),
                            !.filterStale = FALSE]
    /\ procs' = [procs EXCEPT ![t] = started(dest, @, fs.devices)]
    /\ UNCHANGED <<meta, payload, lease, recoveries, op, dl, faults, nops,
                   synced, gc, fs>>

\* _run_command: the command starts when the semaphore lets it.
RunStart(t) ==
    /\ procs[t].pc = "sem"
    /\ semFree(dest.sem)
    /\ dest' = [dest EXCEPT !.sem = @ + 1]
    /\ procs' = [procs EXCEPT ![t].calls = Append(@, procs[t].full_cmd),
                              ![t].pc = "running"]
    /\ UNCHANGED <<meta, payload, lease, recoveries, op, dl, faults, nops,
                   synced, gc, fs>>

\* cmd returns the result of the last run and leaves the shared lock.
returned(th) == [ThreadIdle EXCEPT !.rc = th.rc, !.result = <<th.rc>>]

\* What cmd does with the result of a run.  rc 0 is returned.  After the
\* first failure the filter is invalidated and rebuilt
\* (wider_cmd = _addExtraCfg(cmd)) and the command is run again if
\* wider_cmd differs.  After that, in read-only mode, the command is run
\* again up to READ_ONLY_RETRIES times; else the failure is returned.
afterRun(lc, th, devices) ==
    LET wider_cmd == addExtraCfg([lc EXCEPT !.filterStale = TRUE], devices)
        retrying == [th EXCEPT !.stage = "retry", !.retry = 1, !.pc = "sem"]
    IN  IF th.rc = 0 THEN returned(th)
        ELSE IF th.stage = "first"
          THEN IF widerDiffers(wider_cmd, th.full_cmd)
               THEN [th EXCEPT !.full_cmd = wider_cmd, !.stage = "wider",
                               !.pc = "sem"]
               ELSE IF lc.read_only THEN retrying ELSE returned(th)
        ELSE IF th.stage = "wider"
          THEN IF lc.read_only THEN retrying ELSE returned(th)
        ELSE IF retriesLeft(th.retry)
          THEN [th EXCEPT !.retry = @ + 1, !.pc = "sem"]
          ELSE returned(th)

\* The command ends with rc 0 or 1 and gives the semaphore back; cmd goes
\* on with the result.
RunEnd(t) ==
    /\ procs[t].pc = "running"
    /\ \E rc \in {0, 1} :
          LET th == afterRun(dest, [procs[t] EXCEPT !.rc = rc], fs.devices)
              rebuilt == rc # 0 /\ procs[t].stage = "first"
          IN  /\ procs' = [procs EXCEPT ![t] = th]
              /\ dest' = handOver([dest EXCEPT
                    !.sem = @ - 1,
                    !.readers = IF th.pc = "idle" THEN @ \ {t} ELSE @,
                    !.filter = IF rebuilt THEN buildFilter(fs.devices) ELSE @,
                    !.filterStale = IF rebuilt THEN FALSE ELSE @])
    /\ UNCHANGED <<meta, payload, lease, recoveries, op, dl, faults, nops,
                   synced, gc, fs>>

\* set_read_only(value): take the exclusive lock, or wait for it.
SetReadOnly(value) ==
    /\ procs[Setter].pc = "idle"
    /\ IF exclusiveFree(dest)
       THEN /\ dest' = [dest EXCEPT !.writer = Setter]
            /\ procs' = [procs EXCEPT ![Setter] =
                           [ThreadIdle EXCEPT !.pc = "set", !.value = value]]
       ELSE /\ dest' = [dest EXCEPT !.waiters = Append(@, Setter)]
            /\ procs' = [procs EXCEPT ![Setter] =
                           [ThreadIdle EXCEPT !.pc = "waitExclusive",
                                              !.value = value]]
    /\ UNCHANGED <<meta, payload, lease, recoveries, op, dl, faults, nops,
                   synced, gc, fs>>

\* The waiting set_read_only goes on when the exclusive lock was handed to
\* it.
AcquireExclusive ==
    /\ procs[Setter].pc = "waitExclusive"
    /\ dest.writer = Setter
    /\ procs' = [procs EXCEPT ![Setter].pc = "set"]
    /\ UNCHANGED <<meta, payload, lease, recoveries, op, dl, faults, nops,
                   synced, dest, gc, fs>>

\* if self._read_only != value: self._read_only = value; the exclusive
\* lock is left.
SetMode ==
    /\ procs[Setter].pc = "set"
    /\ dest' = handOver([dest EXCEPT !.read_only = procs[Setter].value,
                                     !.writer = NoThread])
    /\ procs' = [procs EXCEPT ![Setter] = ThreadIdle]
    /\ UNCHANGED <<meta, payload, lease, recoveries, op, dl, faults, nops,
                   synced, gc, fs>>

\* LVMCache() on a host with the initial devices, in read-write mode, the
\* filter not built yet.
InitLvm ==
    /\ fs = [devices |-> InitialDevices]
    /\ dest = [filter |-> <<>>, filterStale |-> TRUE, read_only |-> FALSE,
               readers |-> {}, writer |-> NoThread, waiters |-> <<>>,
               sem |-> 0]
    /\ procs = [t \in {Setter} \cup Workers |-> ThreadIdle]
    /\ nops = 0
    /\ meta = [v \in Ids \cup {TMPL} |-> NoMeta]
    /\ payload = [v \in Ids \cup {TMPL} |-> FALSE]
    /\ lease = [v \in Ids \cup {TMPL} |-> FALSE]
    /\ recoveries = <<>>
    /\ op = OpIdle
    /\ dl = DlIdle
    /\ faults = 0
    /\ synced = FALSE
    /\ gc = GcIdle

NextLvm ==
    \/ AddDevice
    \/ \E value \in BOOLEAN : SetReadOnly(value)
    \/ AcquireExclusive
    \/ SetMode
    \/ \E t \in Workers :
          \/ Cmd(t)
          \/ AcquireShared(t)
          \/ RunStart(t)
          \/ RunEnd(t)

SpecLvm == InitLvm /\ [][NextLvm]_vars

\* Every thread that can go on does so, and the child process of a command
\* ends.  Nothing is assumed about who gets the semaphore first.
LvmFairness ==
    /\ WF_vars(AcquireExclusive \/ SetMode)
    /\ \A t \in Workers :
          WF_vars(AcquireShared(t) \/ RunStart(t) \/ RunEnd(t))

SpecLvmFair == SpecLvm /\ LvmFairness

\* ------------------------------------- metadata slots of a block domain
\* `dest` is the block domain: its version, the tags of its LVs and the
\* lock of the slot allocator; `procs` are the callers of
\* acquireVolumeMetadataSlot.
MaxLVs == 4
SlotCallers == {1, 2}
TAG_PREFIX_MD == "MD_"
TAG_PREFIX_IMAGE == "IU_"
NoSlot == -1

\* tag = sc.TAG_PREFIX_MD + str(offset), and the offset read back from it.
mdTag(offset) == <<TAG_PREFIX_MD, offset>>
tagOffset(tag) == tag[2]

\* The slots taken by the MD_<n> tags of the LVs of the VG.
usedSlots(lvs) ==
    {tagOffset(tag) : tag \in {g \in UNION lvs : g[1] = TAG_PREFIX_MD}}

\* An allocator without reserved slots.
firstSlotZero(version) == 0

\* Slots 0..3 are reserved for the domain metadata in versions 3 and 4;
\* version 5 starts at 1.
firstSlot(version) == IF version <= 4 THEN 4 ELSE 1

\* The lowest slot from the first one on that no MD_ tag uses.
freeSlot(lvs, version) ==
    LET used == usedSlots(lvs)
        first == firstSlot(version)
    IN  CHOOSE n \in first .. first + Cardinality(used) :
           n \notin used /\ \A m \in first .. n - 1 : m \in used

SlotIdle == [pc |-> "idle", slot |-> NoSlot]

\* An allocator that does not wait for its lock.
slotLockIgnored(lock) == TRUE

\* self._lvTagMetaSlotLock can be taken.
slotLockFree(lock) == ~lock

\* with acquireVolumeMetadataSlot(...) as mdSlot: the allocator's lock is
\* taken and the free slot is yielded.
AcquireSlot(t) ==
    /\ procs[t].pc = "idle"
    /\ slotLockFree(dest.lock)
    /\ Cardinality(dest.lvs) < MaxLVs
    /\ dest' = [dest EXCEPT !.lock = TRUE]
    /\ procs' = [procs EXCEPT ![t] =
                   [pc |-> "acquired", slot |-> freeSlot(dest.lvs, dest.version)]]
    /\ UNCHANGED <<meta, payload, lease, recoveries, op, dl, faults, nops,
                   synced, gc, fs>>

\* The slot is bound to the new LV by its MD_ tag; the LV is a volume of
\* the caller's image.
BindSlot(t) ==
    /\ procs[t].pc = "acquired"
    /\ dest' = [dest EXCEPT !.lvs = @ \cup
                  {{mdTag(procs[t].slot), <<TAG_PREFIX_IMAGE, t>>}}]
    /\ procs' = [procs EXCEPT ![t].pc = "bound"]
    /\ UNCHANGED <<meta, payload, lease, recoveries, op, dl, faults, nops,
                   synced, gc, fs>>

\* The with block is left, with a new LV or without one.
ReleaseSlot(t) ==
    /\ procs[t].pc \in {"acquired", "bound"}
    /\ dest' = [dest EXCEPT !.lock = FALSE]
    /\ procs' = [procs EXCEPT ![t] = SlotIdle]
    /\ UNCHANGED <<meta, payload, lease, recoveries, op, dl, faults, nops,
                   synced, gc, fs>>

\* An LV is removed, and its slot with it.
RemoveLV ==
    /\ \E lv \in dest.lvs : dest' = [dest EXCEPT !.lvs = @ \ {lv}]
    /\ UNCHANGED <<meta, payload, lease, recoveries, op, dl, faults, nops,
                   synced, gc, fs, procs>>

\* A new block domain of version 3, 4 or 5, without volumes.
InitSlot ==
    /\ \E version \in {3, 4, 5} :
          dest = [version |-> version, lvs |-> {}, lock |-> FALSE]
    /\ procs = [t \in SlotCallers |-> SlotIdle]
    /\ meta = [v \in Ids \cup {TMPL} |-> NoMeta]
    /\ payload = [v \in Ids \cup {TMPL} |-> FALSE]
    /\ lease = [v \in Ids \cup {TMPL} |-> FALSE]
    /\ recoveries = <<>>
    /\ op = OpIdle
    /\ dl = DlIdle
    /\ faults = 0
    /\ nops = 0
    /\ synced = FALSE
    /\ gc = GcIdle
    /\ fs = NoFiles

NextSlot ==
    \/ RemoveLV
    \/ \E t \in SlotCallers : AcquireSlot(t) \/ BindSlot(t) \/ ReleaseSlot(t)

SpecSlot == InitSlot /\ [][NextSlot]_vars

\* ----------------------------------------------------- domain_lock
\* `dest` is the manifest: the calls it has recorded and whether the
\* domain lock is held; `procs` is the caller of domain_lock; `nops` counts
\* the with blocks entered.
MaxLockUses == 3
HostIds == {1, 2}
NoExc == "none"

\* A context manager that releases only when the body did not raise.
exitOnSuccess(calls, exc) ==
    IF exc = NoExc THEN Append(calls, <<"releaseDomainLock">>) ELSE calls

\* finally: self.releaseDomainLock()
exitCalls(calls, exc) == Append(calls, <<"releaseDomainLock">>)

LockIdle == [pc |-> "idle", host_id |-> 0, exc |-> NoExc, raised |-> NoExc]

\* with manifest.domain_lock(host_id): acquireDomainLock(host_id) is
\* called; when it raises, the body is not run.
DomainLockEnter(host_id) ==
    /\ procs.pc = "idle"
    /\ nops < MaxLockUses
    /\ nops' = nops + 1
    /\ \/ /\ dest' = [dest EXCEPT
                        !.calls = Append(@, <<"acquireDomainLock", host_id>>),
                        !.held = TRUE]
          /\ procs' = [LockIdle EXCEPT !.pc = "body", !.host_id = host_id]
       \/ /\ dest' = [dest EXCEPT
                        !.calls = Append(@, <<"acquireDomainLock", host_id>>)]
          /\ procs' = [LockIdle EXCEPT !.host_id = host_id,
                                       !.raised = "AcquireLockFailure"]
    /\ UNCHANGED <<meta, payload, lease, recoveries, op, dl, faults, synced,
                   gc, fs>>

\* The body: it calls the manifest and ends, or it raises.
DomainLockBody ==
    /\ procs.pc = "body"
    /\ \/ /\ dest' = [dest EXCEPT !.calls = Append(@, <<"dummy">>)]
          /\ procs' = [procs EXCEPT !.pc = "exit"]
       \/ /\ dest' = dest
          /\ procs' = [procs EXCEPT !.pc = "exit", !.exc = "InjectedFailure"]
    /\ UNCHANGED <<meta, payload, lease, recoveries, op, dl, faults, nops,
                   synced, gc, fs>>

\* The with block is left: the lock is released and the exception of the
\* body, if any, goes to the caller.
DomainLockExit ==
    /\ procs.pc = "exit"
    /\ LET calls == exitCalls(dest.calls, procs.exc)
       IN  dest' = [dest EXCEPT !.calls = calls,
                                !.held = IF calls = dest.calls THEN @ ELSE FALSE]
    /\ procs' = [procs EXCEPT !.pc = "idle", !.raised = procs.exc,
                              !.exc = NoExc]
    /\ UNCHANGED <<meta, payload, lease, recoveries, op, dl, faults, nops,
                   synced, gc, fs>>

InitDomainLock ==
    /\ dest = [calls |-> <<>>, held |-> FALSE]
    /\ procs = LockIdle
    /\ nops = 0
    /\ meta = [v \in Ids \cup {TMPL} |-> NoMeta]
    /\ payload = [v \in Ids \cup {TMPL} |-> FALSE]
    /\ lease = [v \in Ids \cup {TMPL} |-> FALSE]
    /\ recoveries = <<>>
    /\ op = OpIdle
    /\ dl = DlIdle
    /\ faults = 0
    /\ synced = FALSE
    /\ gc = GcIdle
    /\ fs = NoFiles

NextDomainLock ==
    \/ \E host_id \in HostIds : DomainLockEnter(host_id)
    \/ DomainLockBody
    \/ DomainLockExit

SpecDomainLock == InitDomainLock /\ [][NextDomainLock]_vars

\* ------------------------------------- base RAW merge: the _MERGE volume
\* The chain is 1 (ancestor, a RAW base) .. successor; `procs` holds the
\* parameters merge has collected, `op` its position.
MergeCaps == {BLOCK_SIZE_4K, 2 * BLOCK_SIZE_4K, 3 * BLOCK_SIZE_4K}
MergeVolId == MaxChain + 1

\* Volume.getVolumeParams(): the parameters merge reads.
getVolumeParams(m, v) ==
    [volUUID |-> v, capacity |-> m[v].capacity, volFormat |-> m[v].format,
     prealloc |-> m[v].prealloc]

\* A _MERGE volume sized like the ancestor.
sizeOfAncestor(srcVolParams, volParams) ==
    volParams.capacity \div BLOCK_SIZE_512

\* size_blk=srcVolParams['capacity'] // sc.BLOCK_SIZE_512
mergeSizeBlk(srcVolParams, volParams) ==
    srcVolParams.capacity \div BLOCK_SIZE_512

NoParams == [volUUID |-> BLANK_UUID, capacity |-> 0, volFormat |-> "NONE",
             prealloc |-> "NONE"]

\* merge (1314-1325): srcVolParams are the successor's parameters;
\* volParams are those of the ancestor's parent, or of the ancestor when
\* it is the base.
MergeGetParams ==
    /\ op.kind = "merge" /\ op.pc = "params"
    /\ LET dstParentUUID == meta[op.anc].parent
       IN  procs' = [srcVolParams |-> getVolumeParams(meta, op.succ),
                     volParams |-> IF dstParentUUID # BLANK_UUID
                                   THEN getVolumeParams(meta, dstParentUUID)
                                   ELSE getVolumeParams(meta, op.anc)]
    /\ op' = [op EXCEPT !.pc = "baseRaw"]
    /\ UNCHANGED <<meta, payload, lease, recoveries, dl, faults, nops, synced,
                   dest, gc, fs>>

\* _baseRawVolumeMerge step 1 (1131-1142): createVolume of
\* <successor>_MERGE with no parent; the capacity of the new volume is
\* size_blk blocks rounded up to 4K.  The creation can fail.
BaseRawCreateMerge ==
    /\ op.kind = "merge" /\ op.pc = "baseRaw"
    /\ procs.volParams.volFormat = "RAW"
    /\ \/ /\ meta' = [meta EXCEPT ![MergeVolId] =
                        newMeta(BLANK_UUID, procs.volParams.volFormat)
                        @@ [capacity |->
                              round(mergeSizeBlk(procs.srcVolParams,
                                                 procs.volParams)
                                      * BLOCK_SIZE_512, BLOCK_SIZE_4K),
                            prealloc |-> procs.volParams.prealloc]]
          /\ payload' = [payload EXCEPT ![MergeVolId] = TRUE]
          /\ op' = [op EXCEPT !.pc = "convert", !.tmp = MergeVolId]
       \/ /\ op' = [op EXCEPT !.pc = "failed", !.out = "StorageException"]
          /\ UNCHANGED <<meta, payload>>
    /\ UNCHANGED <<lease, recoveries, dl, faults, nops, synced, dest, gc, fs,
                   procs>>

\* A RAW base of any capacity and allocation and one or two COW snapshots
\* on it, none smaller than its parent; merge is called with the base as
\* ancestor and a snapshot as successor.
InitMergeRaw ==
    /\ \E len \in 2 .. 3, caps \in [1 .. 3 -> MergeCaps],
          prealloc \in {"SPARSE", "PREALLOCATED"}, successor \in 2 .. 3 :
          /\ successor <= len
          /\ \A i \in 1 .. 2 : caps[i] <= caps[i + 1]
          /\ len = 2 => caps[3] = caps[2]
          /\ meta = [v \in Ids \cup {TMPL} |->
               IF v \in 1 .. len
               THEN [newMeta(v - 1, IF v = 1 THEN "RAW" ELSE "COW")
                       EXCEPT !.voltype = IF v = len THEN "LEAF" ELSE "INTERNAL"]
                    @@ [capacity |-> caps[v],
                        prealloc |-> IF v = 1 THEN prealloc ELSE "SPARSE"]
               ELSE NoMeta @@ [capacity |-> 0, prealloc |-> "NONE"]]
          /\ payload = [v \in Ids \cup {TMPL} |-> v \in 1 .. len]
          /\ op = [OpIdle EXCEPT !.kind = "merge", !.pc = "params", !.anc = 1,
                                 !.succ = successor]
    /\ procs = [srcVolParams |-> NoParams, volParams |-> NoParams]
    /\ lease = [v \in Ids \cup {TMPL} |-> FALSE]
    /\ recoveries = <<>>
    /\ dl = DlIdle
    /\ faults = 0
    /\ nops = 0
    /\ synced = FALSE
    /\ dest = NoDest
    /\ gc = GcIdle
    /\ fs = NoFiles

NextMergeRaw == MergeGetParams \/ BaseRawCreateMerge

SpecMergeRaw == InitMergeRaw /\ [][NextMergeRaw]_vars

\* ------------------------------- merge: prepare and teardown of volumes
\* `procs` holds the volumes on which the running variant has called
\* prepare and not yet teardown (held), the volumes whose teardown raises
\* whenever it is called (broken: a logical volume that is still open cannot
\* be deactivated) and the volumes whose failed teardown was logged.
Broken(t) == t.broken

\* Lines 987-990: the except clause logs and leaves srcVol as it is.
afterFailure(m, vol) == vol

\* An exception leaves a variant with what no finally clause and no scoped
\* prepare has torn down.
heldAtFailure(held) == held

prepFail(o) == [o EXCEPT !.out = "StorageException", !.at = o.pc,
                         !.pc = "failed"]

\* _internalVolumeMerge, lines 1019-1024: extend, then srcVol.prepare.
InternalPrepare ==
    /\ op.kind = "merge" /\ op.pc = "internal"
    /\ \/ /\ op' = prepFail(op)
          /\ procs' = [procs EXCEPT !.held = heldAtFailure(@)]
          /\ Fault
       \/ /\ op' = [op EXCEPT !.pc = "intRebase"]
          /\ procs' = [procs EXCEPT !.held = @ \cup {op.succ}]
          /\ NoFault
    /\ UNCHANGED <<meta, payload, lease, recoveries, dl, nops, synced, dest,
                   gc, fs>>

\* Lines 1025-1034: the rebase in its try block, srcVol.teardown in the
\* finally clause; then the successor leaves the chain.
InternalRebaseTeardown ==
    /\ op.kind = "merge" /\ op.pc = "intRebase"
    /\ \/ /\ op' = prepFail(op)
          /\ procs' = [procs EXCEPT !.held = heldAtFailure(@ \ {op.succ})]
          /\ UNCHANGED meta
          /\ Fault
       \/ /\ op' = [op EXCEPT !.pc = "teardownSubChain",
                               !.rm = chainRemove(op.chain, op.succ)]
          /\ procs' = [procs EXCEPT !.held = @ \ {op.succ}]
          /\ meta' = rebase(meta, op.succ, op.dstParent)
          /\ NoFault
    /\ UNCHANGED <<payload, lease, recoveries, dl, nops, synced, dest, gc,
                   fs>>

\* _baseCowVolumeMerge, lines 1055-1075: extend, createVolume of the
\* temporary volume, tmpVol.prepare.
CowPrepareTmp ==
    /\ op.kind = "merge" /\ op.pc = "baseCow"
    /\ \/ /\ op' = prepFail(op)
          /\ procs' = [procs EXCEPT !.held = heldAtFailure(@)]
          /\ UNCHANGED <<meta, payload>>
          /\ Fault
       \/ /\ meta' = [meta EXCEPT
                        ![NewId] = newMeta(BLANK_UUID, meta[op.anc].format)]
          /\ payload' = [payload EXCEPT ![NewId] = TRUE]
          /\ \/ /\ op' = [prepFail(op) EXCEPT !.tmp = NewId]
                /\ procs' = [procs EXCEPT !.held = heldAtFailure(@)]
                /\ Fault
             \/ /\ op' = [op EXCEPT !.pc = "cowPrepare", !.tmp = NewId,
                                     !.cur = NewId]
                /\ procs' = [procs EXCEPT !.held = @ \cup {NewId}]
                /\ NoFault
    /\ UNCHANGED <<lease, recoveries, dl, nops, synced, dest, gc, fs>>

\* Lines 1080 and 1092: srcVol.prepare before each of the two rebases; it
\* is outside the try block.
CowPrepareSuccessor ==
    /\ op.kind = "merge" /\ op.pc = "cowPrepare"
    /\ \/ /\ op' = prepFail(op)
          /\ procs' = [procs EXCEPT !.held = heldAtFailure(@)]
          /\ Fault
       \/ /\ op' = [op EXCEPT !.pc = "cowRebase"]
          /\ procs' = [procs EXCEPT !.held = @ \cup {op.succ}]
          /\ NoFault
    /\ UNCHANGED <<meta, payload, lease, recoveries, dl, nops, synced, dest,
                   gc, fs>>

\* Lines 1081-1090 (rebase on the temporary volume) and 1093-1100 (rebase
\* on no backing file), each with srcVol.teardown in its finally clause.
\* op.cur is the backing volume of the rebase that is due.
CowRebaseTeardown ==
    /\ op.kind = "merge" /\ op.pc = "cowRebase"
    /\ \/ /\ op' = prepFail(op)
          /\ procs' = [procs EXCEPT !.held = heldAtFailure(@ \ {op.succ})]
          /\ UNCHANGED meta
          /\ Fault
       \/ /\ meta' = rebase(meta, op.succ, op.cur)
          /\ procs' = [procs EXCEPT !.held = @ \ {op.succ}]
          /\ op' = IF op.cur = BLANK_UUID
                   THEN [op EXCEPT !.pc = "cowDelete"]
                   ELSE [op EXCEPT !.pc = "cowPrepare", !.cur = BLANK_UUID]
          /\ NoFault
    /\ UNCHANGED <<payload, lease, recoveries, dl, nops, synced, dest, gc,
                   fs>>

\* Lines 1103-1108: tmpVol.teardown, tmpVol.delete, chain.remove.
CowTeardownTmp ==
    /\ op.kind = "merge" /\ op.pc = "cowDelete"
    /\ \/ /\ op' = prepFail(op)
          /\ procs' = [procs EXCEPT !.held = heldAtFailure(@ \ {op.tmp})]
          /\ UNCHANGED <<meta, payload>>
          /\ Fault
       \/ /\ op' = [op EXCEPT !.pc = "teardownSubChain",
                               !.rm = chainRemove(op.chain, op.succ)]
          /\ procs' = [procs EXCEPT !.held = @ \ {op.tmp}]
          /\ meta' = [meta EXCEPT ![op.tmp] = NoMeta]
          /\ payload' = [payload EXCEPT ![op.tmp] = FALSE]
          /\ NoFault
    /\ UNCHANGED <<lease, recoveries, dl, nops, synced, dest, gc, fs>>

\* _baseRawVolumeMerge, line 1127: the scoped prepare of the successor is
\* entered.
RawPrepareSuccessor ==
    /\ op.kind = "merge" /\ op.pc = "baseRaw"
    /\ \/ /\ op' = prepFail(op)
          /\ procs' = [procs EXCEPT !.held = heldAtFailure(@)]
          /\ Fault
       \/ /\ op' = [op EXCEPT !.pc = "rawCreate"]
          /\ procs' = [procs EXCEPT !.held = @ \cup {op.succ}]
          /\ NoFault
    /\ UNCHANGED <<meta, payload, lease, recoveries, dl, nops, synced, dest,
                   gc, fs>>

\* Lines 1132-1146: createVolume of the _MERGE volume and the scoped
\* prepare of it, inside the scoped prepare of the successor.
RawPrepareMerge ==
    /\ op.kind = "merge" /\ op.pc = "rawCreate"
    /\ \/ /\ op' = prepFail(op)
          /\ procs' = [procs EXCEPT !.held = heldAtFailure(@ \ {op.succ})]
          /\ UNCHANGED <<meta, payload>>
          /\ Fault
       \/ /\ meta' = [meta EXCEPT
                        ![NewId] = newMeta(BLANK_UUID, meta[op.anc].format)]
          /\ payload' = [payload EXCEPT ![NewId] = TRUE]
          /\ \/ /\ op' = [prepFail(op) EXCEPT !.tmp = NewId]
                /\ procs' = [procs EXCEPT
                               !.held = heldAtFailure(@ \ {op.succ})]
                /\ Fault
             \/ /\ op' = [op EXCEPT !.pc = "rawConvert", !.tmp = NewId]
                /\ procs' = [procs EXCEPT !.held = @ \cup {NewId}]
                /\ NoFault
    /\ UNCHANGED <<lease, recoveries, dl, nops, synced, dest, gc, fs>>

\* Lines 1149-1173: the conversion; both scoped prepares are left, with
\* or without an exception; then setInternal and the two renames, which are
\* followed here only as far as they can fail.
RawConvertTeardown ==
    /\ op.kind = "merge" /\ op.pc = "rawConvert"
    /\ \/ /\ op' = prepFail(op)
          /\ procs' = [procs EXCEPT
                         !.held = heldAtFailure(@ \ {op.succ, op.tmp})]
          /\ Fault
       \/ /\ op' = [op EXCEPT !.pc = "rawChildren"]
          /\ procs' = [procs EXCEPT !.held = @ \ {op.succ, op.tmp}]
          /\ NoFault
    /\ UNCHANGED <<meta, payload, lease, recoveries, dl, nops, synced, dest,
                   gc, fs>>

\* Lines 1178-1194: ch.prepare for a child that is prepared next.
RawPrepareChild ==
    /\ op.kind = "merge" /\ op.pc = "rawChildren"
    /\ IF op.children = {}
       THEN /\ op' = [op EXCEPT !.pc = "done", !.out = "ok",
                                !.rm = chainRemove(op.chain, op.succ)]
            /\ UNCHANGED procs
            /\ NoFault
       ELSE \E ch \in op.children :
               \/ /\ op' = prepFail(op)
                  /\ procs' = [procs EXCEPT !.held = heldAtFailure(@)]
                  /\ Fault
               \/ /\ op' = [op EXCEPT !.pc = "rawRebase", !.cur = ch]
                  /\ procs' = [procs EXCEPT !.held = @ \cup {ch}]
                  /\ NoFault
    /\ UNCHANGED <<meta, payload, lease, recoveries, dl, nops, synced, dest,
                   gc, fs>>

\* Lines 1182-1187: the child's rebase with ch.teardown in the finally
\* clause, then recheckIfLeaf.
RawChildTeardown ==
    /\ op.kind = "merge" /\ op.pc = "rawRebase"
    /\ \/ /\ op' = prepFail(op)
          /\ procs' = [procs EXCEPT !.held = heldAtFailure(@ \ {op.cur})]
          /\ Fault
       \/ /\ op' = [op EXCEPT !.pc = "rawChildren", !.cur = BLANK_UUID,
                               !.children = @ \ {op.cur}]
          /\ procs' = [procs EXCEPT !.held = @ \ {op.cur}]
          /\ NoFault
    /\ UNCHANGED <<meta, payload, lease, recoveries, dl, nops, synced, dest,
                   gc, fs>>

\* __teardownSubChain, lines 961-977: the walk starts at the last volume of
\* the chain and is to stop at the parent of the first one.
TeardownSubChainEnter ==
    /\ op.kind = "merge" /\ op.pc = "teardownSubChain"
    /\ op' = IF op.rm = <<>>
             THEN [op EXCEPT !.pc = "failed", !.at = "teardownSubChain",
                             !.out = "InvalidParameterException"]
             ELSE [op EXCEPT !.pc = "walk", !.cur = op.rm[Len(op.rm)],
                             !.stop = getParent(meta, op.rm[1])]
    /\ UNCHANGED <<meta, payload, lease, recoveries, dl, faults, nops,
                   synced, dest, gc, fs, procs>>

\* One iteration of the loop at lines 979-990: the parent is looked up, the
\* volume is torn down and the walk goes on to the parent; when the teardown
\* raises, the failure is logged.  When the loop ends the variant returns.
TeardownSubChainStep ==
    /\ op.kind = "merge" /\ op.pc = "walk"
    /\ IF op.cur = BLANK_UUID \/ op.cur = op.stop
       THEN /\ op' = [op EXCEPT !.pc = "done", !.out = "ok"]
            /\ UNCHANGED procs
            /\ NoFault
       ELSE IF op.cur \in Broken(procs)
       THEN /\ op' = [op EXCEPT !.cur = afterFailure(meta, op.cur)]
            /\ procs' = [procs EXCEPT !.logged = @ \cup {op.cur}]
            /\ NoFault
       ELSE \/ /\ op' = [op EXCEPT !.cur = getParent(meta, op.cur)]
               /\ procs' = [procs EXCEPT !.torn = @ \cup {op.cur}]
               /\ NoFault
            \/ /\ op' = [op EXCEPT !.cur = afterFailure(meta, op.cur)]
               /\ procs' = [procs EXCEPT !.logged = @ \cup {op.cur}]
               /\ Fault
    /\ UNCHANGED <<meta, payload, lease, recoveries, dl, nops, synced, dest,
                   gc, fs>>

\* merge has called one of its three procedures on a chain of two to four
\* volumes, with or without a template under it; the teardown of some
\* volumes of the image raises whenever it is called.
InitPrepare ==
    /\ \E n \in 2 .. MaxChain + 1, puuid \in {BLANK_UUID, TMPL},
          format \in {"RAW", "COW"}, anc \in 1 .. MaxChain,
          succ \in 2 .. MaxChain + 1, broken \in SUBSET (1 .. MaxChain) :
          /\ puuid = TMPL => format = "COW"
          /\ anc < succ /\ succ <= n
          /\ broken \subseteq 1 .. (n - 1)
          /\ meta = chainMeta(n, puuid, format)
          /\ procs = [held |-> {}, broken |-> broken, logged |-> {},
                      torn |-> {}]
          /\ op = [OpIdle EXCEPT
                     !.kind = "merge", !.pc = mergeVariant(meta, anc),
                     !.variant = mergeVariant(meta, anc),
                     !.anc = anc, !.succ = succ,
                     !.dstParent = getParent(meta, anc),
                     !.children = getChildren(meta, succ),
                     !.chain = subChainSizeCalc(meta, getParent(meta, anc),
                                                succ)]
    /\ payload = [v \in Ids \cup {TMPL} |-> meta[v] # NoMeta]
    /\ lease = [v \in Ids \cup {TMPL} |-> meta[v] # NoMeta]
    /\ recoveries = <<>>
    /\ dl = DlIdle
    /\ faults = 0
    /\ nops = 0
    /\ synced = FALSE
    /\ dest = NoDest
    /\ gc = GcIdle
    /\ fs = NoFiles

NextPrepare ==
    \/ InternalPrepare
    \/ InternalRebaseTeardown
    \/ CowPrepareTmp
    \/ CowPrepareSuccessor
    \/ CowRebaseTeardown
    \/ CowTeardownTmp
    \/ RawPrepareSuccessor
    \/ RawPrepareMerge
    \/ RawConvertTeardown
    \/ RawPrepareChild
    \/ RawChildTeardown
    \/ TeardownSubChainEnter
    \/ TeardownSubChainStep

SpecPrepare == InitPrepare /\ [][NextPrepare]_vars

\* The thread that runs merge goes on as long as it has a step to take.
SpecPrepareFair == SpecPrepare /\ WF_vars(NextPrepare)

\* ------------------- copies: the exception raised and the volumes torn down
\* `op` is the running operation (move in _interImagesCopy, copyCollapsed,
\* or merge in the conversion of _baseRawVolumeMerge); `procs` holds what
\* the qemu-img operation raised (raised), the exception that is on its way
\* to the caller (pending), whether srcVol and dstVol are set, and how often
\* teardown was called on each.
\* The exceptions of se are StorageExceptions; ActionStopped (vdsm.common)
\* and cmdutils.Error are not.
isStorageException(k) ==
    k \in {"StorageException", "CopyImageError", "MergeSnapshotsError",
           "SourceImageActionError"}

\* Lines 479-488: the except clauses around the copy of one volume.
interImagesCopyRaise(k) ==
    IF k = "ActionStopped" \/ isStorageException(k) THEN k
    ELSE "CopyImageError"

\* Lines 834-839: the except clauses around the conversion of copyCollapsed
\* (ActionStopped is raised again, cmdutils.Error as CopyImageError).
collapsedConvertRaise(k) ==
    IF k = "CmdError" THEN "CopyImageError" ELSE k

\* Lines 850-856 (and 803-809): the except clauses of the enclosing try
\* block: a StorageException is raised again, anything else is raised as
\* CopyImageError.
collapsedRaise(k) == IF isStorageException(k) THEN k ELSE "CopyImageError"

\* Lines 724-731: the except clauses around the producing of the source
\* volume of copyCollapsed.
collapsedSourceRaise(k) ==
    IF isStorageException(k) THEN k ELSE "SourceImageActionError"

\* Lines 1161-1164: cmdutils.Error of the conversion is raised as
\* MergeSnapshotsError.
rawConvertRaise(k) == IF k = "CmdError" THEN "MergeSnapshotsError" ELSE k

\* Lines 1364-1371: the except clauses of merge.
mergeHandlers(k) ==
    IF k = "ActionStopped" \/ isStorageException(k) THEN k
    ELSE "SourceImageActionError"

\* What operation.run() raises: the abort of the task or the failure of
\* qemu-img.
OperationErrors == {"ActionStopped", "CmdError"}

CopyIdle == [raised |-> "none", pending |-> "none", srcVol |-> FALSE,
             dstVol |-> FALSE, srcTorn |-> 0, dstTorn |-> 0, logged |-> FALSE]

\* _interImagesCopy, lines 424-434: the two leaf volumes are prepared; an
\* exception is raised again after __cleanupMove.
InterImagesCopyPrepare ==
    /\ op.kind = "move" /\ op.pc = "prepare"
    /\ \/ /\ op' = [op EXCEPT !.pc = "copy", !.cur = 1]
          /\ UNCHANGED procs
       \/ \E k \in ExcKinds, at \in {"prepareSrc", "prepareDst"} :
             /\ op' = [op EXCEPT !.pc = "cleanup", !.at = at]
             /\ procs' = [procs EXCEPT !.pending = k]
    /\ UNCHANGED <<meta, payload, lease, recoveries, dl, faults, nops,
                   synced, dest, gc, fs>>

\* Lines 437-491: the copy of the volume that is due; the finally clause
\* is entered after the last volume or with the exception of a copy.
InterImagesCopyVolume ==
    /\ op.kind = "move" /\ op.pc = "copy"
    /\ IF op.cur > Len(op.chain)
       THEN /\ op' = [op EXCEPT !.pc = "cleanup"]
            /\ procs' = [procs EXCEPT !.pending = "ok"]
       ELSE \/ /\ op' = [op EXCEPT !.cur = @ + 1]
               /\ UNCHANGED procs
            \/ \E k \in {"StorageException", "Exception"} :
                  /\ op' = [op EXCEPT !.pc = "cleanup", !.at = "copy"]
                  /\ procs' = [procs EXCEPT
                                 !.pending = interImagesCopyRaise(k)]
            \/ \E k \in OperationErrors :
                  /\ op' = [op EXCEPT !.pc = "cleanup", !.at = "copy"]
                  /\ procs' = [procs EXCEPT
                                 !.raised = k,
                                 !.pending = interImagesCopyRaise(k)]
    /\ UNCHANGED <<meta, payload, lease, recoveries, dl, faults, nops,
                   synced, dest, gc, fs>>

\* copyCollapsed, lines 714-809: the source volume is produced and
\* prepared, the destination volume is created and produced.
CopyCollapsedCreate ==
    /\ op.kind = "copyCollapsed" /\ op.pc = "create"
    /\ \/ /\ op' = [op EXCEPT !.pc = "convert"]
          /\ procs' = [procs EXCEPT !.srcVol = TRUE, !.dstVol = TRUE]
       \/ \E k \in {"StorageException", "Exception"},
             produced \in BOOLEAN :
             /\ op' = [op EXCEPT !.pc = "cleanup", !.at = "create"]
             /\ procs' = [procs EXCEPT
                            !.srcVol = produced,
                            !.pending = IF produced THEN collapsedRaise(k)
                                        ELSE collapsedSourceRaise(k)]
    /\ UNCHANGED <<meta, payload, lease, recoveries, dl, faults, nops,
                   synced, dest, gc, fs>>

\* Lines 811-863: dstVol.prepare, the conversion and the marking of the
\* destination volume; then the finally clause.
CopyCollapsedConvert ==
    /\ op.kind = "copyCollapsed" /\ op.pc = "convert"
    /\ \/ /\ op' = [op EXCEPT !.pc = "cleanup"]
          /\ procs' = [procs EXCEPT !.pending = "ok"]
       \/ \E k \in {"StorageException", "Exception"} :
             /\ op' = [op EXCEPT !.pc = "cleanup", !.at = "convert"]
             /\ procs' = [procs EXCEPT !.pending = collapsedRaise(k)]
       \/ \E k \in OperationErrors :
             /\ op' = [op EXCEPT !.pc = "cleanup", !.at = "convert"]
             /\ procs' = [procs EXCEPT
                            !.raised = k,
                            !.pending =
                               collapsedRaise(collapsedConvertRaise(k))]
    /\ UNCHANGED <<meta, payload, lease, recoveries, dl, faults, nops,
                   synced, dest, gc, fs>>

\* __cleanupMove and __cleanupCopy (lines 309-319, 671-681), first
\* statement: srcVol.teardown when srcVol is set.  When it raises, the
\* except clause logs and the cleanup is over.
CleanupSource ==
    /\ op.kind \in {"move", "copyCollapsed"} /\ op.pc = "cleanup"
    /\ IF ~procs.srcVol
       THEN /\ op' = [op EXCEPT !.pc = "cleanupDst"]
            /\ UNCHANGED procs
       ELSE \/ /\ op' = [op EXCEPT !.pc = "cleanupDst"]
               /\ procs' = [procs EXCEPT !.srcTorn = @ + 1]
            \/ /\ op' = [op EXCEPT !.pc = "done", !.out = procs.pending]
               /\ procs' = [procs EXCEPT !.srcTorn = @ + 1,
                                         !.logged = TRUE]
    /\ UNCHANGED <<meta, payload, lease, recoveries, dl, faults, nops,
                   synced, dest, gc, fs>>

\* Second statement: dstVol.teardown when dstVol is set; then the caller
\* gets what was on its way.
CleanupDest ==
    /\ op.kind \in {"move", "copyCollapsed"} /\ op.pc = "cleanupDst"
    /\ op' = [op EXCEPT !.pc = "done", !.out = procs.pending]
    /\ IF ~procs.dstVol
       THEN UNCHANGED procs
       ELSE \/ procs' = [procs EXCEPT !.dstTorn = @ + 1]
            \/ procs' = [procs EXCEPT !.dstTorn = @ + 1, !.logged = TRUE]
    /\ UNCHANGED <<meta, payload, lease, recoveries, dl, faults, nops,
                   synced, dest, gc, fs>>

\* _baseRawVolumeMerge, lines 1149-1164, and the except clauses of merge:
\* the conversion of the successor.
MergeConvert ==
    /\ op.kind = "merge" /\ op.pc = "convert"
    /\ \/ /\ op' = [op EXCEPT !.pc = "done", !.out = "ok"]
          /\ UNCHANGED procs
       \/ \E k \in OperationErrors :
             /\ op' = [op EXCEPT
                         !.pc = "done", !.at = "convert",
                         !.out = mergeHandlers(rawConvertRaise(k))]
             /\ procs' = [procs EXCEPT !.raised = k]
    /\ UNCHANGED <<meta, payload, lease, recoveries, dl, faults, nops,
                   synced, dest, gc, fs>>

\* move has created the target image of a chain of one to three volumes and
\* enters _interImagesCopy; or copyCollapsed or the conversion of a base
\* RAW merge is entered.
InitCopy ==
    /\ \E n \in 1 .. MaxChain, kind \in {"move", "copyCollapsed", "merge"} :
          /\ kind # "move" => n = 1
          /\ op = [OpIdle EXCEPT
                     !.kind = kind,
                     !.pc = IF kind = "move" THEN "prepare"
                            ELSE IF kind = "merge" THEN "convert"
                            ELSE "create",
                     !.chain = [i \in 1 .. n |-> i]]
          /\ procs = [CopyIdle EXCEPT !.srcVol = (kind = "move"),
                                      !.dstVol = (kind = "move")]
    /\ meta = [v \in Ids \cup {TMPL} |-> NoMeta]
    /\ payload = [v \in Ids \cup {TMPL} |-> FALSE]
    /\ lease = [v \in Ids \cup {TMPL} |-> FALSE]
    /\ recoveries = <<>>
    /\ dl = DlIdle
    /\ faults = 0
    /\ nops = 0
    /\ synced = FALSE
    /\ dest = NoDest
    /\ gc = GcIdle
    /\ fs = NoFiles

NextCopy ==
    \/ InterImagesCopyPrepare
    \/ InterImagesCopyVolume
    \/ CopyCollapsedCreate
    \/ CopyCollapsedConvert
    \/ CleanupSource
    \/ CleanupDest
    \/ MergeConvert

SpecCopy == InitCopy /\ [][NextCopy]_vars

\* --------------------------------------------------------- Image.sparsify
\* `dest` says whether the destination volume is sparse and which of the two
\* volumes are chunked; `procs` is the call: its position, the volumes that
\* are prepared and not torn down (held), the calls made on the volumes in
\* their order, whether virtsparsify.sparsify returned, and the exception
\* that is on its way to the caller.
SparsifyVols == {"tmp", "dst"}

\* A sparsify that takes every destination volume.
refusesNone(isSparse) == FALSE

\* Lines 583-584: if not dstVolume.isSparse(): raise se.VolumeNotSparse()
refuses(isSparse) == ~isSparse

SparsifyIdle == [pc |-> "check", held |-> {}, calls |-> <<>>,
                 helper |-> FALSE, exc |-> "none", shrinking |-> "none"]

called(pr, name, vol) == [pr EXCEPT !.calls = Append(@, <<name, vol>>)]

\* Lines 580-587: the three volumes are looked up; a destination volume that
\* is not sparse is refused.
SparsifyCheck ==
    /\ procs.pc = "check"
    /\ \/ procs' = [procs EXCEPT !.pc = "raised", !.exc = "StorageException"]
       \/ procs' = IF refuses(dest.isSparse)
                   THEN [procs EXCEPT !.pc = "raised",
                                      !.exc = "VolumeNotSparse"]
                   ELSE [procs EXCEPT !.pc = "prepareTmp"]
    /\ UNCHANGED <<meta, payload, lease, recoveries, op, dl, faults, nops,
                   synced, dest, gc, fs>>

\* Line 589: tmpVolume.prepare(), outside the try blocks.
SparsifyPrepareTmp ==
    /\ procs.pc = "prepareTmp"
    /\ \/ procs' = [called(procs, "prepare", "tmp") EXCEPT
                      !.pc = "prepareDst", !.held = @ \cup {"tmp"}]
       \/ procs' = [called(procs, "prepare", "tmp") EXCEPT
                      !.pc = "raised", !.exc = "StorageException"]
    /\ UNCHANGED <<meta, payload, lease, recoveries, op, dl, faults, nops,
                   synced, dest, gc, fs>>

\* Line 591: dstVolume.prepare(), inside the outer try block only.
SparsifyPrepareDst ==
    /\ procs.pc = "prepareDst"
    /\ \/ procs' = [called(procs, "prepare", "dst") EXCEPT
                      !.pc = "sparsify", !.held = @ \cup {"dst"}]
       \/ procs' = [called(procs, "prepare", "dst") EXCEPT
                      !.pc = "teardownTmp", !.exc = "StorageException"]
    /\ UNCHANGED <<meta, payload, lease, recoveries, op, dl, faults, nops,
                   synced, dest, gc, fs>>

\* Lines 592-616: the two volumes are extended and virtsparsify.sparsify is
\* run; any exception is raised as CannotSparsifyVolume.
SparsifyRun ==
    /\ procs.pc = "sparsify"
    /\ \/ procs' = [called(procs, "sparsify", "dst") EXCEPT
                      !.pc = "teardownDst", !.helper = TRUE]
       \/ \E extended \in BOOLEAN :
             procs' = [(IF extended THEN called(procs, "sparsify", "dst")
                        ELSE procs) EXCEPT
                         !.pc = "teardownDst",
                         !.exc = "CannotSparsifyVolume"]
    /\ UNCHANGED <<meta, payload, lease, recoveries, op, dl, faults, nops,
                   synced, dest, gc, fs>>

\* Lines 617-618: the inner finally clause; a teardown that raises replaces
\* the exception on its way.
SparsifyTeardownDst ==
    /\ procs.pc = "teardownDst"
    /\ \/ procs' = [called(procs, "teardown", "dst") EXCEPT
                      !.pc = "teardownTmp", !.held = @ \ {"dst"}]
       \/ procs' = [called(procs, "teardown", "dst") EXCEPT
                      !.pc = "teardownTmp", !.held = @ \ {"dst"},
                      !.exc = "StorageException"]
    /\ UNCHANGED <<meta, payload, lease, recoveries, op, dl, faults, nops,
                   synced, dest, gc, fs>>

\* Lines 619-620: the outer finally clause; then the shrinking of tmp is
\* entered when no exception is on its way.
SparsifyTeardownTmp ==
    /\ procs.pc = "teardownTmp"
    /\ \/ procs' = [called(procs, "teardown", "tmp") EXCEPT
                      !.held = @ \ {"tmp"},
                      !.pc = IF procs.exc = "none" THEN "shrink"
                             ELSE "raised",
                      !.shrinking = IF procs.exc = "none" THEN "tmp"
                                    ELSE "none"]
       \/ procs' = [called(procs, "teardown", "tmp") EXCEPT
                      !.held = @ \ {"tmp"}, !.pc = "raised",
                      !.exc = "StorageException"]
    /\ UNCHANGED <<meta, payload, lease, recoveries, op, dl, faults, nops,
                   synced, dest, gc, fs>>

\* After the shrinking of tmp comes that of dst, then the return.
shrinkNext(pr) ==
    IF pr.shrinking = "tmp" THEN [pr EXCEPT !.pc = "shrink",
                                            !.shrinking = "dst"]
    ELSE [pr EXCEPT !.pc = "returned", !.shrinking = "none"]

\* _shrinkVolumeToOptimalSize, lines 1392-1395: a volume that is not chunked
\* is left alone; a chunked one is prepared.
ShrinkPrepare ==
    /\ procs.pc = "shrink"
    /\ IF ~dest.chunked[procs.shrinking]
       THEN procs' = shrinkNext(procs)
       ELSE \/ procs' = [called(procs, "prepare", procs.shrinking) EXCEPT
                           !.pc = "optimal", !.held = @ \cup {procs.shrinking}]
            \/ procs' = [called(procs, "prepare", procs.shrinking) EXCEPT
                           !.pc = "raised", !.exc = "StorageException"]
    /\ UNCHANGED <<meta, payload, lease, recoveries, op, dl, faults, nops,
                   synced, dest, gc, fs>>

\* Lines 1396-1399: optimal_size in the try block, teardown in the finally
\* clause.
ShrinkOptimalSize ==
    /\ procs.pc = "optimal"
    /\ \/ procs' = [called(procs, "teardown", procs.shrinking) EXCEPT
                      !.pc = "reduce", !.held = @ \ {procs.shrinking}]
       \/ procs' = [called(procs, "teardown", procs.shrinking) EXCEPT
                      !.pc = "raised", !.held = @ \ {procs.shrinking},
                      !.exc = "CmdError"]
    /\ UNCHANGED <<meta, payload, lease, recoveries, op, dl, faults, nops,
                   synced, dest, gc, fs>>

\* Lines 1401-1402: vol.reduce(optimal_size_blk)
ShrinkReduce ==
    /\ procs.pc = "reduce"
    /\ \/ procs' = shrinkNext(called(procs, "reduce", procs.shrinking))
       \/ procs' = [called(procs, "reduce", procs.shrinking) EXCEPT
                      !.pc = "raised", !.exc = "StorageException"]
    /\ UNCHANGED <<meta, payload, lease, recoveries, op, dl, faults, nops,
                   synced, dest, gc, fs>>

\* sparsify is called with a destination volume that is sparse or not; each
\* of the two volumes is chunked or not.
InitSparsify ==
    /\ \E isSparse \in BOOLEAN, chunked \in [SparsifyVols -> BOOLEAN] :
          dest = [isSparse |-> isSparse, chunked |-> chunked]
    /\ procs = SparsifyIdle
    /\ op = [OpIdle EXCEPT !.kind = "sparsify"]
    /\ meta = [v \in Ids \cup {TMPL} |-> NoMeta]
    /\ payload = [v \in Ids \cup {TMPL} |-> FALSE]
    /\ lease = [v \in Ids \cup {TMPL} |-> FALSE]
    /\ recoveries = <<>>
    /\ dl = DlIdle
    /\ faults = 0
    /\ nops = 0
    /\ synced = FALSE
    /\ gc = GcIdle
    /\ fs = NoFiles

NextSparsify ==
    \/ SparsifyCheck
    \/ SparsifyPrepareTmp
    \/ SparsifyPrepareDst
    \/ SparsifyRun
    \/ SparsifyTeardownDst
    \/ SparsifyTeardownTmp
    \/ ShrinkPrepare
    \/ ShrinkOptimalSize
    \/ ShrinkReduce

SpecSparsify == InitSparsify /\ [][NextSparsify]_vars

\* ====================================================================
\* Properties of getChain (checked under SpecWalk)
\* ====================================================================
GcOk == gc.pc = "done" /\ gc.result = "ok"

\* Each element of the chain is the parent of the next one.
ParentFirst(m, chain) ==
    \A i \in 1..(Len(chain) - 1) : getParent(m, chain[i + 1]) = chain[i]

\* The last element is volUUID, or a LEAF of the image when it was omitted.
EndsAtStart(m, g) ==
    /\ g.chain # <<>>
    /\ g.chain[Len(g.chain)] = g.start
    /\ g.given \/ g.start \in Leaves(m, "img")

\* The first element hangs on BLANK or on a SHARED volume.
RootedAtBase(m, chain) ==
    \/ getParent(m, chain[1]) = BLANK_UUID
    \/ isShared(m, getParent(m, chain[1]))

NoSharedIn(m, chain) == \A i \in 1..Len(chain) : ~isShared(m, chain[i])

\* C7 as stated: every chain getChain returns is parent-first, ends at
\* volUUID (or the image's LEAF), is rooted at BLANK or at a SHARED template
\* and holds no SHARED volume.
C7_Original ==
    GcOk => /\ ParentFirst(meta, gc.chain)
            /\ EndsAtStart(meta, gc)
            /\ RootedAtBase(meta, gc.chain)
            /\ NoSharedIn(meta, gc.chain)

\* C7 amended: the same, except that a start volume which is itself SHARED
\* (volUUID names a template, or the image is one SHARED volume) is returned
\* as the one-element list holding that volume.
C7_GetChainResult ==
    GcOk =>
        IF isShared(meta, gc.start)
        THEN gc.chain = <<gc.start>>
        ELSE /\ ParentFirst(meta, gc.chain)
             /\ EndsAtStart(meta, gc)
             /\ RootedAtBase(meta, gc.chain)
             /\ NoSharedIn(meta, gc.chain)

\* A three-volume chain on top of the template was walked to its base.
C7_Witness ==
    /\ GcOk
    /\ Len(gc.chain) = 3
    /\ getParent(meta, gc.chain[1]) = TMPL
    /\ ~gc.given

Existing(m) == {v \in DOMAIN m : m[v] # NoMeta}

\* The volume reached from v by n parent steps; BLANK_UUID once the walk has
\* stopped (at a SHARED volume or at a BLANK parent).
RECURSIVE Ancestor(_, _, _)
Ancestor(m, v, n) ==
    IF v = BLANK_UUID THEN BLANK_UUID
    ELSE IF isShared(m, v) THEN BLANK_UUID
    ELSE IF n = 0 THEN v
    ELSE Ancestor(m, getParent(m, v), n - 1)

\* Following parents from v comes back to a volume already visited: with N
\* volumes, a walk of N + 1 volumes that has not stopped has repeated one.
Revisits(m, v) == Ancestor(m, v, Cardinality(Existing(m))) # BLANK_UUID


\* Every iteration adds a volume not walked before, so the walk takes at most
\* as many iterations as there are volumes.
WalkBounded ==
    /\ Len(gc.chain) <= Cardinality(Existing(meta))
    /\ gc.pc = "walk" => /\ gc.cur \notin gc.seen
                          /\ Cardinality(gc.seen) = Len(gc.chain)

NoLeafAndOmitted == ~gc.given /\ Leaves(meta, "img") = {}

\* C8 as stated: the walk is bounded, a revisited volume raises
\* ImageIsNotLegalChain, and so does an omitted volUUID when no volume of the
\* image is LEAF.
C8_Original ==
    /\ WalkBounded
    /\ gc.pc = "done" =>
          /\ (gc.start # BLANK_UUID /\ Revisits(meta, gc.start))
                => gc.result = "ImageIsNotLegalChain"
          /\ NoLeafAndOmitted => gc.result = "ImageIsNotLegalChain"

\* C8 amended: the walk is bounded by the number of volumes; it ends with
\* ImageIsNotLegalChain exactly when it revisits a volume or, volUUID being
\* omitted, when the image has volumes, none is LEAF and it is not the single
\* SHARED volume of a template image (which is returned); an image without
\* volumes raises ImageDoesNotExistInSD.
C8_WalkTerminates ==
    /\ WalkBounded
    /\ gc.pc = "done" =>
          /\ (gc.start # BLANK_UUID /\ Revisits(meta, gc.start))
                <=> (gc.result = "ImageIsNotLegalChain" /\ gc.chain # <<>>)
          /\ NoLeafAndOmitted =>
                LET uuidlist == getImageVolumes(meta, "img")
                IN  IF uuidlist = {}
                    THEN gc.result = "ImageDoesNotExistInSD"
                    ELSE IF Cardinality(uuidlist) = 1
                            /\ \A v \in uuidlist : isShared(meta, v)
                    THEN gc.result = "ok" /\ gc.chain = <<gc.start>>
                    ELSE gc.result = "ImageIsNotLegalChain"

\* A cycle through three volumes was walked and refused.
C8_Witness ==
    /\ gc.pc = "done"
    /\ gc.result = "ImageIsNotLegalChain"
    /\ Len(gc.chain) = 3

\* ====================================================================
\* Properties of the volume operations (checked under Spec)
\* ====================================================================
Idle == op.kind = "none"

\* The volumes of the image that are LEAF and LEGAL.
LeafLegal == {v \in ImgVols : isLeaf(meta, v) /\ meta[v].legality = "LEGAL"}

MergeDone == op.kind = "merge" /\ op.pc = "done"

\* merge was called with ancestor B and successor D on a chain whose part
\* A <- B <- C <- D has A, a volume of the image, as its base.
OnFourChain ==
    /\ op.kind = "merge"
    /\ Len(op.chain) = 3
    /\ op.dstParent \in Ids
    /\ op.anc = op.chain[1] /\ op.succ = op.chain[3]

\* The deleting of the chain to remove has been reached.
RemovalReached ==
    \/ op.pc \in {"remove", "removing", "shrink"}
    \/ op.pc = "done" /\ op.committed /\ op.at # "mark"

\* C2: merge with ancestor B and successor D on A <- B <- C <- D that ends
\* with success has made A the parent of D, getChain of D ends with A, D,
\* and from the moment the removing starts B and C are ILLEGAL as long as
\* they have metadata (they are marked before they are removed).
C2_MergeOntoParent ==
    /\ (MergeDone /\ op.out = "ok" /\ OnFourChain)
          => LET g == getChain(meta, payload, "img", op.succ, op.succ)
             IN  /\ getParent(meta, op.succ) = op.dstParent
                 /\ g.result = "ok"
                 /\ Len(g.chain) >= 2
                 /\ g.chain[Len(g.chain)] = op.succ
                 /\ g.chain[Len(g.chain) - 1] = op.dstParent
    /\ (OnFourChain /\ RemovalReached)
          => \A v \in {op.chain[1], op.chain[2]} :
                meta[v] = NoMeta \/ meta[v].legality = "ILLEGAL"

\* The merge of B..D has ended with success, B and C are gone and the chain
\* of the image is A, D.
C2_Witness ==
    /\ MergeDone /\ op.out = "ok" /\ OnFourChain
    /\ meta[op.chain[1]] = NoMeta /\ meta[op.chain[2]] = NoMeta
    /\ getChain(meta, payload, "img", BLANK_UUID, op.succ).chain
          = <<op.dstParent, op.succ>>

\* C3: in merge, from the marking on the recoveries are cleared; from the
\* removing on every volume of the chain to remove that still has metadata
\* is ILLEGAL; up to then no volume of the sub-chain below the successor
\* has lost a file it had when merge was called; the successor is shrunk
\* only at the end and only when it is chunked.
C3_MergeOrder ==
    op.kind = "merge" =>
        /\ op.pc \in {"mark", "remove", "removing", "shrink"}
              => recoveries = <<>> /\ op.committed
        /\ RemovalReached
              => \A v \in Elems(op.rm) :
                    meta[v] = NoMeta \/ meta[v].legality = "ILLEGAL"
        /\ ~RemovalReached
              => \A v \in Elems(op.chain) \ {op.succ} :
                    /\ op.src0[1][v] # NoMeta => meta[v] # NoMeta
                    /\ op.src0[2][v] => payload[v]
                    /\ op.src0[3][v] => lease[v]
        /\ op.shrunk => op.chunked /\ op.pc = "done"

\* A merge that removed two volumes and shrank the successor has ended.
C3_Witness ==
    /\ MergeDone /\ op.out = "ok" /\ op.shrunk
    /\ Len(op.chain) = 3 /\ op.rm = <<>> /\ op.raised = {}

\* ---- FileVolume.delete
Deleting == dl.pc # "none"

\* C9: a step of delete unlinks the payload only of a volume that is ILLEGAL,
\* removes the metadata file only after the unlinking of the payload was
\* attempted, and never leaves the volume without payload, with metadata
\* and not ILLEGAL: also when the step is the last one of a delete that
\* failed.
DeleteStepOrder ==
    Deleting =>
        /\ (payload[dl.vol] /\ ~payload'[dl.vol])
              => meta[dl.vol].legality = "ILLEGAL"
        /\ (meta[dl.vol] # NoMeta /\ meta'[dl.vol] = NoMeta)
              => dl.pc = "meta"
        /\ (~payload'[dl.vol] /\ meta'[dl.vol] # NoMeta)
              => meta'[dl.vol].legality = "ILLEGAL"
C9_DeleteOrder == [][DeleteStepOrder]_vars

\* A delete has failed after the payload was unlinked: the metadata is
\* still there and says ILLEGAL.
C9_Witness ==
    /\ dl.pc = "done" /\ dl.result # "ok"
    /\ ~payload[dl.vol] /\ meta[dl.vol] # NoMeta
    /\ meta[dl.vol].legality = "ILLEGAL"

\* C10 as stated: a delete one step of which has failed (eFound was
\* assigned) does not end with success.
C10_Original ==
    (dl.pc = "done" /\ dl.eFound # "CannotDeleteVolume")
        => dl.result # "ok"

\* C11 as stated: a delete more than one cleanup step of which has failed
\* raises the error that was captured first.
C11_Original ==
    (dl.pc = "done" /\ dl.result # "ok" /\ Len(dl.caught) > 1)
        => dl.result = dl.caught[1]

\* The mark of dl.vol is written in this step.
MarkWritten ==
    /\ meta[dl.vol] # NoMeta /\ meta[dl.vol].legality # "ILLEGAL"
    /\ meta'[dl.vol] # NoMeta /\ meta'[dl.vol].legality = "ILLEGAL"

\* C12 as stated: the volume is marked ILLEGAL after the parent fix-up, that
\* is when its parent record is blank already.
C12_Original ==
    [][(Deleting /\ MarkWritten) => getParent(meta, dl.vol) = BLANK_UUID]_vars

\* The steps of delete in the order of the code: the value of dl.pc after
\* each step.
DeleteOrder == <<"validate", "legal", "parent", "rm", "meta", "done">>
Position(pc) == CHOOSE i \in 1..Len(DeleteOrder) : DeleteOrder[i] = pc

\* C12 amended: a step of delete that does not end it goes on to the next
\* position of validate, mark ILLEGAL, parent fix-up, remove payload and
\* lease, remove metadata; the mark is written at the second position only,
\* the parent record of the volume and the role of its old parent change at
\* the third only and on a volume that is ILLEGAL, a file is unlinked at the
\* fourth only (the lease never without the payload), and the metadata file
\* is removed at the fifth only.
DeleteSteps ==
    (Deleting /\ dl' # dl /\ dl'.pc # "none") =>
        /\ dl'.pc # "done" => Position(dl'.pc) = Position(dl.pc) + 1
        /\ MarkWritten => dl.pc = "legal"
        /\ (meta[dl.vol] # NoMeta /\ meta'[dl.vol] # NoMeta
              /\ meta'[dl.vol].parent # meta[dl.vol].parent)
              => dl.pc = "parent" /\ meta[dl.vol].legality = "ILLEGAL"
        /\ (\E v \in DOMAIN meta \ {dl.vol} : meta'[v] # meta[v])
              => /\ dl.pc = "parent"
                 /\ \A v \in DOMAIN meta \ {dl.vol, getParent(meta, dl.vol)} :
                       meta'[v] = meta[v]
        /\ (payload' # payload \/ lease' # lease)
              => dl.pc = "rm" /\ (lease' # lease => ~payload'[dl.vol])
        /\ (meta[dl.vol] # NoMeta /\ meta'[dl.vol] = NoMeta)
              => dl.pc = "meta"
C12_DeleteSteps == [][DeleteSteps]_vars

\* A delete of a volume that has a parent has gone through all its steps:
\* the old parent is a LEAF again and no file of the volume is left.
C12_Witness ==
    /\ op.kind = "delete" /\ dl.pc = "done" /\ dl.result = "ok"
    /\ dl.caught = <<>>
    /\ meta[dl.vol] = NoMeta /\ ~payload[dl.vol] /\ ~lease[dl.vol]
    /\ \E v \in ImgVols : isLeaf(meta, v)

\* ---- rollbacks of a creation (checked under SpecRollback)
\* The step runs halfbakedVolumeRollback.
HalfbakedRuns ==
    /\ op.kind = "rollback" /\ recoveries # <<>>
    /\ recoveries[Len(recoveries)].name = "halfbakedVolumeRollback"
    /\ Len(recoveries') < Len(recoveries)

\* C13: a run of halfbakedVolumeRollback for a volume leaves the payload of
\* a volume whose metadata file exists, leaves no payload of a volume whose
\* metadata file does not exist, touches no other file, and a second run
\* right after it changes nothing.
HalfbakedStep ==
    HalfbakedRuns =>
        LET v == recoveries[Len(recoveries)].vol
        IN  /\ meta[v] # NoMeta => payload'[v] = payload[v]
            /\ meta[v] = NoMeta => ~payload'[v]
            /\ \A w \in DOMAIN payload \ {v} : payload'[w] = payload[w]
            /\ meta' = meta /\ lease' = lease
            /\ halfbakedVolumeRollback(payload', meta', v) = payload'
C13_HalfbakedRollback == [][HalfbakedStep]_vars

\* The rollback has ended; its last recovery unlinked the payload of a
\* volume without metadata, and the payload of a volume with metadata is
\* still there.
C13_Witness ==
    /\ op.kind = "rollback" /\ recoveries = <<>>
    /\ op.out = "halfbakedVolumeRollback" /\ op.at = "unlinked"
    /\ ~payload[op.cur] /\ meta[op.cur] = NoMeta
    /\ \E w \in RollbackVols : payload[w] /\ meta[w] # NoMeta

\* ---- creations of one volume path (checked under SpecCreate)
\* The creators that made the payload.
Made == {p \in DOMAIN procs : procs[p].created}

\* C14: of the creations of one volume path at most one makes the payload,
\* and only when there was none; a creation that finds the payload ends with
\* VolumeAlreadyExists, and no step of a creation that did not make the
\* payload changes a file.
CreateStep ==
    /\ Cardinality(Made) <= 1
    /\ \A p \in DOMAIN procs :
          /\ (procs'[p].created /\ ~procs[p].created) => fs.dir["vol"] = 0
          /\ (procs'[p] # procs[p] /\ ~procs'[p].created) => fs' = fs
          /\ (procs[p].pc = "truncate" /\ procs'[p].pc # "truncate"
                /\ fs.dir["vol"] # 0)
                => /\ procs'[p].pc = "done"
                   /\ procs'[p].result = "VolumeAlreadyExists"
C14_ExclusiveCreate == [][CreateStep]_vars

\* Two creations have run at once: one has made the payload and returned,
\* the other has failed with VolumeAlreadyExists, and the payload holds what
\* the first one wrote only.
C14_Witness ==
    /\ \A p \in DOMAIN procs : procs[p].pc = "done"
    /\ \E p, q \in DOMAIN procs :
          /\ procs[p].result = "ok" /\ procs[p].created
          /\ procs[q].result = "VolumeAlreadyExists"
          /\ fs.dir["vol"] # 0
          /\ \A i \in 1..Len(fs.data[fs.dir["vol"]]) :
                fs.data[fs.dir["vol"]][i][2] = p

\* ---- one creation of a payload (checked under SpecPayload)
InitialSizeGiven == procs[1].initial_size # None
RawKind == procs[1].kind \in {"RAW_SPARSE", "RAW_PREALLOCATED"}
Checked == procs[1].pc = "check" /\ procs'[1].pc # "check"

\* C22 as the specification states it: an initial size is accepted only
\* for RAW+PREALLOCATED and only from 0 to the capacity; RAW+SPARSE, COW and
\* a value above the capacity end with InvalidParameterException and no
\* payload.
C22_Original ==
    [][(Checked /\ InitialSizeGiven)
          => IF procs[1].kind = "RAW_PREALLOCATED"
                /\ procs[1].initial_size[1] >= 0
                /\ procs[1].initial_size[1] <= procs[1].size
             THEN procs'[1].pc = "truncate"
             ELSE /\ procs'[1].result = "InvalidParameterException"
                  /\ fs' = fs]_vars

\* The initial size that is given is one the creation refuses.
Refused ==
    /\ InitialSizeGiven
    /\ \/ procs[1].initial_size[1] < 0
       \/ procs[1].kind = "RAW_SPARSE"
       \/ procs[1].kind = "RAW_PREALLOCATED"
             /\ procs[1].initial_size[1] > procs[1].size
       \/ ~RawKind /\ procs[1].initial_size[1] # 0
CheckStep ==
    /\ (Checked /\ Refused)
          => /\ procs'[1].pc = "done"
             /\ procs'[1].result = "InvalidParameterException"
             /\ procs'[1].reported =
                   IF procs[1].initial_size[1] < 0
                   THEN "InvalidParameterException"
                   ELSE "VolumeCreationError"
             /\ fs' = fs
    /\ (Checked /\ ~Refused) => procs'[1].pc = "truncate"
    /\ procs'[1].result = "InvalidParameterException" => ~procs'[1].created
\* What the code does with an initial size: a creation that is given one
\* ends with InvalidParameterException, before it touches the payload, when
\* the size is negative, when the volume is RAW+SPARSE, when the volume is
\* RAW+PREALLOCATED and the size is above the capacity, and when the volume
\* is COW and the size is not 0; the caller of createVolume gets it as
\* VolumeCreationError except for the negative size.  Every other creation
\* goes on to create the payload: also a COW one with initial size 0.
InitialSizeChecks == [][CheckStep]_vars

\* What a creation of the kind writes between the truncate and the chmod.
Filling ==
    IF procs[1].kind = "RAW_PREALLOCATED" /\ allocSize(procs[1]) # 0
    THEN <<<<"fallocate", 1>>>>
    ELSE IF procs[1].kind = "COW" THEN <<<<"qcow2", 1>>>>
    ELSE IF procs[1].kind = "COW_CHILD" THEN <<<<"clone", 1>>>>
    ELSE <<>>
PayloadStep ==
    /\ <<procs[1].pc, procs'[1].pc>> \in
          {<<"check", "truncate">>, <<"check", "done">>,
           <<"truncate", "fill">>, <<"truncate", "done">>,
           <<"fill", "chmod">>, <<"fill", "done">>, <<"chmod", "done">>}
    /\ (procs[1].pc = "truncate" /\ procs'[1].pc = "fill")
          => /\ fs.dir["vol"] = 0
             /\ fs'.data[fs'.dir["vol"]] = <<<<"truncate", 1>>>>
    /\ (procs[1].pc = "fill" /\ procs'[1].pc = "chmod")
          => fs'.data[fs'.dir["vol"]] = <<<<"truncate", 1>>>> \o Filling
    /\ procs'[1].result = "ok"
          => /\ procs[1].pc = "chmod"
             /\ fs'.data[fs'.dir["vol"]] =
                   <<<<"truncate", 1>>>> \o Filling \o <<<<"chmod", 1>>>>
             /\ fs'.mode[fs'.dir["vol"]] = FILE_VOLUME_PERMISSIONS
\* C23: a creation makes the payload with an exclusive create, then runs
\* fallocate (RAW+PREALLOCATED with something to allocate), qemu-img create
\* (COW without parent) or clone (COW with parent), then sets the
\* permissions; nothing writes the payload after that, and the payload of a
\* creation that returned has mode 0o660 whatever mode the tools left.
C23_PayloadOrder == [][PayloadStep]_vars

\* A COW creation on a parent has returned: the payload was made, cloned
\* and given its mode, in this order.
C23_Witness ==
    /\ procs[1].pc = "done" /\ procs[1].result = "ok"
    /\ procs[1].kind = "COW_CHILD"
    /\ fs.data[fs.dir["vol"]]
          = <<<<"truncate", 1>>, <<"clone", 1>>, <<"chmod", 1>>>>
    /\ fs.mode[fs.dir["vol"]] = FILE_VOLUME_PERMISSIONS

\* ---- capacity of snapshots (checked under SpecSnapshot)
\* C24: every volume's capacity is a multiple of 4K and not below the
\* capacity of its parent; a snapshot that was asked for with a capacity of
\* one 4K block less than its parent's (or any capacity that rounds to less
\* than the parent's) has ended with InvalidParameterException and has made
\* nothing, one with no less than the parent's has been made.
C24_SnapshotCapacity ==
    /\ \A v \in SnapVols :
          /\ meta[v].capacity % BLOCK_SIZE_4K = 0
          /\ getParent(meta, v) # BLANK_UUID
                => meta[v].capacity >= meta[getParent(meta, v)].capacity
    /\ procs.srcVolUUID # BLANK_UUID
          => IF procs.capacity
                  <= meta[procs.srcVolUUID].capacity - BLOCK_SIZE_4K
             THEN /\ procs.result = "InvalidParameterException"
                  /\ meta[procs.volUUID] = NoMeta
                  /\ ~payload[procs.volUUID]
             ELSE /\ procs.result = "ok"
                  /\ meta[procs.volUUID] # NoMeta
                  /\ meta[procs.volUUID].parent = procs.srcVolUUID

\* A snapshot one 4K block smaller than its parent has been refused.
C24_Witness ==
    /\ procs.srcVolUUID # BLANK_UUID
    /\ procs.capacity = meta[procs.srcVolUUID].capacity - BLOCK_SIZE_4K
    /\ procs.result = "InvalidParameterException"
    /\ meta[procs.volUUID] = NoMeta

\* ---- LVM command layer (checked under SpecLvm and SpecLvmFair)
\* The paths a filter accepts.
AcceptSet(filter) == {p \in DevPaths : accepts(filter, p)}

\* A run of the command of thread t ends in this step.
RunEnds(t) == procs[t].pc = "running" /\ procs'[t].pc # "running"

\* What cmd does after a failed run in read-write mode.
ReadWriteFailure(t) ==
    RunEnds(t) /\ ~dest.read_only /\ procs'[t].rc # 0
      => IF Len(procs[t].calls) = 1
            /\ AcceptSet(procs[t].full_cmd.filter) # fs.devices
         THEN /\ procs'[t].pc = "sem"
              /\ AcceptSet(procs'[t].full_cmd.filter) = fs.devices
              /\ procs'[t].full_cmd.locking_type = 1
         ELSE /\ procs'[t].pc = "idle"
              /\ procs'[t].result = <<1>>

\* A successful run is the last one, and its result is the caller's.
StopsAtSuccess(t) ==
    RunEnds(t) /\ procs'[t].rc = 0
      => procs'[t].pc = "idle" /\ procs'[t].result = <<0>>

\* C25: in read-write mode a command whose first run fails is run once
\* more if and only if the devices differ from those its filter was built
\* from, the second run with a filter built from the current devices; the
\* command is run at most twice and cmd returns the result of the last
\* run.
C25_ReadWriteRetry ==
    /\ [][\A t \in Workers : ReadWriteFailure(t) /\ StopsAtSuccess(t)]_vars
    /\ [](\A t \in Workers :
            ~dest.read_only
              => /\ Len(procs[t].calls) <= 2
                 /\ Len(procs[t].calls) = 2
                      => procs[t].calls[1] # procs[t].calls[2])

\* A command in read-write mode is in its second run, with another filter.
C25_Witness ==
    \E t \in Workers :
       /\ ~dest.read_only
       /\ procs[t].pc = "running"
       /\ Len(procs[t].calls) = 2
       /\ procs[t].calls[1].filter # procs[t].calls[2].filter

\* The runs of a command: all runs after the first have the same command
\* line unless the first one had a stale filter, in which case all runs
\* after the second are those of the second; the retries are at most
\* READ_ONLY_RETRIES.
RunsBounded(t) ==
    LET calls == procs[t].calls
    IN  /\ Len(calls) <= READ_ONLY_RETRIES + 2
        /\ \A i \in 2 .. Len(calls) : calls[i] = calls[2]
        /\ Len(calls) = READ_ONLY_RETRIES + 2 => calls[1] # calls[2]
        /\ procs[t].retry <= READ_ONLY_RETRIES

\* A command that was called, and one that has returned.
Called(t) == procs[t].pc # "idle"
Returned(t) == procs[t].pc = "idle" /\ procs[t].result # <<>>

\* C26: a command is run at most READ_ONLY_RETRIES times after the first
\* run, plus once when the first run had a stale filter; the runs after
\* the first (after the second, with a stale filter) have the same command
\* line; the first successful run is the last one; and every command that
\* was called returns.
C26_ReadOnlyRetries ==
    /\ [](\A t \in Workers : RunsBounded(t))
    /\ [][\A t \in Workers : StopsAtSuccess(t)]_vars
    /\ \A t \in Workers : Called(t) ~> Returned(t)

\* A read-only command is in its last run, READ_ONLY_RETRIES + 2 runs
\* after a stale filter.
C26_Witness ==
    \E t \in Workers :
       /\ dest.read_only
       /\ procs[t].pc = "running"
       /\ Len(procs[t].calls) = READ_ONLY_RETRIES + 2
       /\ procs[t].retry = READ_ONLY_RETRIES

\* set_read_only waits for the lock, or holds it.
ChangePending == procs[Setter].pc \in {"waitExclusive", "set"}

\* The mode changes only when no command holds the shared lock, and a
\* command gets the shared lock only when no set_read_only waits or is at
\* work after the step.
ModeChangeStep ==
    /\ dest'.read_only # dest.read_only
         => /\ dest.readers = {}
            /\ dest.writer = Setter
            /\ \A t \in Workers : procs[t].pc \notin {"sem", "running"}
    /\ \A t \in Workers :
          t \in dest'.readers /\ t \notin dest.readers => ~ChangePending'

\* C27: the mode is changed only when no command is at work; no command
\* gets to work while a set_read_only waits or is at work; and every run
\* of a command that is at work has the locking type of the current mode,
\* 4 in read-only mode and 1 in read-write mode.
C27_ModeChange ==
    /\ [][ModeChangeStep]_vars
    /\ [](\A t \in Workers :
            /\ procs[t].pc \in {"sem", "running"}
                 => /\ t \in dest.readers
                    /\ dest.writer = NoThread
                    /\ procs[t].full_cmd.locking_type
                         = (IF dest.read_only THEN 4 ELSE 1)
            /\ \A i \in DOMAIN procs[t].calls :
                  procs[t].calls[i].locking_type
                    = (IF dest.read_only THEN 4 ELSE 1))

\* set_read_only(True) waits for a running read-write command, and a new
\* command waits behind it.
C27_Witness ==
    /\ procs[Setter].pc = "waitExclusive"
    /\ procs[Setter].value
    /\ ~dest.read_only
    /\ \E t, u \in Workers :
          /\ procs[t].pc = "running"
          /\ procs[t].calls[1].locking_type = 1
          /\ procs[u].pc = "waitShared"

\* The commands that are running.
Running == {t \in Workers : procs[t].pc = "running"}

\* C28: no more than MAX_COMMANDS commands run at a time, and every
\* command that waits for the lock or for the semaphore gets to run.
C28_CommandConcurrency ==
    /\ [](Cardinality(Running) <= MAX_COMMANDS /\ dest.sem = Cardinality(Running))
    /\ \A t \in Workers :
          (procs[t].pc \in {"waitShared", "sem"}) ~> (procs[t].pc = "running")

\* MAX_COMMANDS commands run in read-only mode and one more waits for the
\* semaphore.
C28_Witness ==
    /\ dest.read_only
    /\ Cardinality(Running) = MAX_COMMANDS
    /\ \E t \in Workers : procs[t].pc = "sem" /\ procs[t].calls = <<>>

\* C29 as stated: every command that starts to run has a filter that
\* accepts exactly the current multipath devices.
C29_Original ==
    [][\A t \in Workers :
         procs[t].pc = "sem" /\ procs'[t].pc = "running"
           => AcceptSet(procs[t].full_cmd.filter) = fs.devices]_vars

\* The first failed run of a command is followed by a run with a filter
\* rebuilt from the current devices, if the devices are not those of the
\* filter.
RebuiltAfterFailure(t) ==
    /\ RunEnds(t)
    /\ Len(procs[t].calls) = 1
    /\ procs'[t].rc # 0
    /\ AcceptSet(procs[t].full_cmd.filter) # fs.devices
    => AcceptSet(procs'[t].full_cmd.filter) = fs.devices

\* C29 (amended): every command that is run has a filter that accepts
\* only multipath devices, the ones there were when the filter was built,
\* and rejects every other path; a device added later is accepted by the
\* run that follows the first failed run of a command.
C29_Filter ==
    /\ [](\A t \in Workers : \A i \in DOMAIN procs[t].calls :
            /\ AcceptSet(procs[t].calls[i].filter) \subseteq fs.devices
            /\ InitialDevices \subseteq AcceptSet(procs[t].calls[i].filter))
    /\ [][\A t \in Workers : RebuiltAfterFailure(t)]_vars

\* A command runs for the second time, now with the device that was added
\* after its first filter was built.
C29_Witness ==
    \E t \in Workers :
       /\ procs[t].pc = "running"
       /\ Len(procs[t].calls) = 2
       /\ ~accepts(procs[t].calls[1].filter, "/dev/mapper/c")
       /\ accepts(procs[t].calls[2].filter, "/dev/mapper/c")
       /\ ~accepts(procs[t].calls[2].filter, "/dev/sda")

\* ---- metadata slots (checked under SpecSlot)
\* The LVs that stand for the used slots of a test case.
SlotLVs(slots) == {{mdTag(n)} : n \in slots}

\* The slot yielded in this step is free, not reserved, and the lowest
\* such slot.
SlotYielded(t) ==
    procs[t].pc = "idle" /\ procs'[t].pc = "acquired"
      => /\ procs'[t].slot >= (IF dest.version \in {3, 4} THEN 4 ELSE 1)
         /\ \A lv \in dest.lvs : mdTag(procs'[t].slot) \notin lv
         /\ \A n \in (IF dest.version \in {3, 4} THEN 4 ELSE 1)
                       .. procs'[t].slot - 1 :
               \E lv \in dest.lvs : mdTag(n) \in lv

\* The slots of the test table come out as the test expects.
SlotTable ==
    /\ \A version \in {3, 4} :
          /\ freeSlot(SlotLVs({}), version) = 4
          /\ freeSlot(SlotLVs({4}), version) = 5
          /\ freeSlot(SlotLVs({5}), version) = 4
          /\ freeSlot(SlotLVs({4, 6}), version) = 5
          /\ freeSlot(SlotLVs({4, 7}), version) = 5
    /\ freeSlot(SlotLVs({}), 5) = 1
    /\ freeSlot(SlotLVs({1}), 5) = 2
    /\ freeSlot(SlotLVs({2}), 5) = 1
    /\ freeSlot(SlotLVs({1, 3}), 5) = 2
    /\ freeSlot(SlotLVs({1, 4}), 5) = 2

\* C30: the slot that acquireVolumeMetadataSlot yields is not used by any
\* MD_<n> tag of the VG, is at least 4 on versions 3 and 4 and at least 1
\* on version 5, and every slot between that start and it is used; no
\* caller ever holds a reserved slot.
C30_MetadataSlot ==
    /\ [][\A t \in SlotCallers : SlotYielded(t)]_vars
    /\ [](SlotTable /\ \A t \in SlotCallers :
             procs[t].pc # "idle"
               => procs[t].slot >= (IF dest.version \in {3, 4} THEN 4 ELSE 1))

\* On a version 4 domain with slots 4 and 6 in use, slot 5 was yielded.
C30_Witness ==
    /\ dest.version = 4
    /\ usedSlots(dest.lvs) = {4, 6}
    /\ \E t \in SlotCallers : procs[t].pc = "acquired" /\ procs[t].slot = 5

\* The callers that are inside acquireVolumeMetadataSlot.
InSlotScope == {t \in SlotCallers : procs[t].pc # "idle"}

\* C31: the allocator's lock is held exactly while a caller is inside
\* acquireVolumeMetadataSlot, at most one caller is inside at a time, and
\* no two LVs carry the same MD_<n> tag.
C31_SlotLock ==
    /\ dest.lock <=> InSlotScope # {}
    /\ Cardinality(InSlotScope) <= 1
    /\ \A lv1, lv2 \in dest.lvs :
          lv1 # lv2 => usedSlots({lv1}) \cap usedSlots({lv2}) = {}

\* Both callers have made a volume, and one of them is inside the scope
\* again with a third slot.
C31_Witness ==
    /\ \A t \in SlotCallers : \E lv \in dest.lvs : <<TAG_PREFIX_IMAGE, t>> \in lv
    /\ \E t \in SlotCallers :
          /\ procs[t].pc = "acquired"
          /\ procs[t].slot \notin usedSlots(dest.lvs)
    /\ dest.lock

\* ---- domain_lock (checked under SpecDomainLock)
\* The last call that the manifest has recorded.
LastCall == dest.calls[Len(dest.calls)]

\* A step of domain_lock: the body runs only after acquireDomainLock and
\* before releaseDomainLock; leaving the block adds exactly one
\* releaseDomainLock as the last call and hands the body's exception to the
\* caller.
DomainLockStep ==
    /\ procs.pc = "body" /\ procs'.pc = "exit"
         => /\ dest.held
            /\ LastCall = <<"acquireDomainLock", procs.host_id>>
    /\ procs.pc = "exit" /\ procs'.pc = "idle"
         => /\ dest'.calls = Append(dest.calls, <<"releaseDomainLock">>)
            /\ ~dest'.held
            /\ procs'.raised = procs.exc

\* C32: the domain lock is acquired before the body and released exactly
\* once after it, whether the body raised or not, and the caller gets the
\* exception of the body; between two with blocks every acquired lock has
\* been released.
C32_DomainLock ==
    /\ [][DomainLockStep]_vars
    /\ [](/\ dest.held <=> procs.pc \in {"body", "exit"}
          /\ procs.pc = "idle" /\ dest.calls # <<>>
               => IF procs.raised = "AcquireLockFailure"
                  THEN LastCall = <<"acquireDomainLock", procs.host_id>>
                  ELSE LastCall = <<"releaseDomainLock">>)

\* A with block whose body raised has been left: the lock is released and
\* the caller has the exception.
C32_Witness ==
    /\ procs.pc = "idle"
    /\ procs.raised = "InjectedFailure"
    /\ ~dest.held
    /\ dest.calls = <<<<"acquireDomainLock", 1>>, <<"releaseDomainLock">>>>

\* ---- base RAW merge: the _MERGE volume (checked under SpecMergeRaw)
\* C33 as stated: the _MERGE volume has the ancestor's capacity and the
\* ancestor's format.
C33_Original ==
    op.pc = "convert"
      => /\ meta[MergeVolId].capacity = meta[op.anc].capacity
         /\ meta[MergeVolId].format = meta[op.anc].format

\* C33 (amended): the _MERGE volume has the successor's capacity and the
\* format and the allocation type of the ancestor, and no parent.
C33_MergeVolume ==
    op.pc = "convert"
      => /\ meta[MergeVolId].capacity = meta[op.succ].capacity
         /\ meta[MergeVolId].format = meta[op.anc].format
         /\ meta[MergeVolId].prealloc = meta[op.anc].prealloc
         /\ meta[MergeVolId].parent = BLANK_UUID
         /\ payload[MergeVolId]

\* The _MERGE volume was created for a successor that is larger than the
\* ancestor.
C33_Witness ==
    /\ op.pc = "convert"
    /\ payload[MergeVolId]
    /\ meta[op.succ].capacity > meta[op.anc].capacity
    /\ meta[MergeVolId].capacity = meta[op.succ].capacity

\* ---- merge: the volumes that are marked and removed (checked under Spec)
\* The volume had no file when merge was called.
CreatedByMerge(v) ==
    op.src0[1][v] = NoMeta /\ ~op.src0[2][v] /\ ~op.src0[3][v]

\* The name the old successor got in base RAW merge (deletedVolumeName):
\* the first name that was free after the _MERGE volume had taken its own.
RenamedSuccessor ==
    {v \in Ids : /\ op.variant = "baseRaw"
                 /\ op.pc \notin {"baseRaw", "rawRename1"}
                 /\ CreatedByMerge(v) /\ v # op.tmp
                 /\ \A w \in Ids : CreatedByMerge(w) /\ w # op.tmp => v <= w}

\* The sub-chain from the ancestor up to the successor's parent and, in base
\* RAW merge, the old successor under its new name.
Intermediates == (Elems(op.chain) \ {op.succ}) \cup RenamedSuccessor

\* The step marks the volume ILLEGAL or removes one of its files.
MarkedOrDeleted(v) ==
    \/ meta[v] # NoMeta /\ meta'[v] = NoMeta
    \/ payload[v] /\ ~payload'[v]
    \/ lease[v] /\ ~lease'[v]
    \/ /\ meta[v].legality # "ILLEGAL"
       /\ meta'[v] # NoMeta /\ meta'[v].legality = "ILLEGAL"

\* merge is past its variant: markIllegalSubChain or removeSubChain runs.
AfterVariant ==
    op.kind = "merge" /\ op.pc \in {"clear", "mark", "remove", "removing"}

MergeRemovalStep ==
    /\ AfterVariant
          => \A v \in Ids \cup {TMPL} :
                MarkedOrDeleted(v)
                   => /\ v \in Intermediates
                      /\ v \notin {op.succ, op.dstParent, TMPL}
    /\ (op.kind = "merge" /\ op.pc \in {"internal", "baseCow", "cowRebase",
                                        "cowDelete"})
          => \A v \in Ids \cup {TMPL} :
                MarkedOrDeleted(v) => op.variant = "baseCow" /\ v = op.tmp

VariantLeft == op.kind = "merge" /\ op.pc \in {"done", "failed"}

\* C35: a walk of __teardownSubChain that has begun comes to its end, also
\* when the teardown of a volume raises.  (Not so: the except clause leaves
\* srcVol as it is, so the loop tears the same volume down again; with a
\* volume whose teardown raises every time no step changes the state any
\* more and the walk never ends.)
C35_Original == (op.kind = "merge" /\ op.pc = "walk") ~> VariantLeft

\* C36: when a variant of merge is left, by return or by exception, no
\* volume is left on which it called prepare and not teardown.  (Not so for
\* the temporary volume of base COW merge.)
C36_Original == VariantLeft => procs.held = {}

\* ---- copies (checked under SpecCopy)
CopyLeft == op.pc = "done"

\* C37: when _interImagesCopy is left, teardown has been called once on
\* the source leaf and once on the destination leaf.  (Not so when the
\* teardown of the source raises: __cleanupMove then logs and returns.)
C37_Original ==
    (op.kind = "move" /\ CopyLeft)
       => procs.srcTorn = 1 /\ procs.dstTorn = 1

\* C38: when the qemu-img operation of move, copyCollapsed or merge raised
\* ActionStopped, the caller gets ActionStopped.  (Not so in copyCollapsed.)
C38_Original ==
    (CopyLeft /\ procs.raised = "ActionStopped")
       => op.out = "ActionStopped"

\* ---- sparsify (checked under SpecSparsify)
SparsifyLeft == procs.pc \in {"returned", "raised"}

\* The positions of the calls of a kind on a volume, in the order of calls.
CallsIn(calls, name, vol) ==
    {i \in 1 .. Len(calls) : calls[i] = <<name, vol>>}
CallsAt(name, vol) == CallsIn(procs.calls, name, vol)

\* What holds in every state of a call of sparsify.
SparsifyState ==
    /\ ~dest.isSparse
          => /\ CallsAt("prepare", "tmp") = {} /\ CallsAt("prepare", "dst") = {}
             /\ procs.pc \in {"check", "raised"}
             /\ procs.pc = "raised"
                   => procs.exc \in {"VolumeNotSparse", "StorageException"}
    /\ procs.exc = "VolumeNotSparse" => procs.calls = <<>> /\ ~dest.isSparse
    /\ SparsifyLeft => procs.held = {}
    /\ procs.pc = "returned" => procs.helper /\ procs.exc = "none"

\* What holds of every step of a call of sparsify.
SparsifyStep ==
    /\ procs.pc = "teardownTmp"
          => /\ procs.held = {"tmp"} /\ procs'.held = {}
             /\ (procs.helper \/ procs.exc = "CannotSparsifyVolume")
                   => CallsAt("teardown", "dst") # {}
    /\ procs'.pc \in {"shrink", "optimal", "reduce"}
          => /\ procs.helper /\ procs'.exc = "none"
             /\ CallsIn(procs'.calls, "teardown", "dst") # {}
             /\ CallsIn(procs'.calls, "teardown", "tmp") # {}
    /\ (procs.shrinking = "tmp" /\ procs'.shrinking = "dst")
          => \/ procs.pc = "shrink" /\ ~dest.chunked["tmp"]
             \/ procs.pc = "reduce"
                   /\ CallsIn(procs'.calls, "reduce", "tmp") # {}
    /\ CallsIn(procs'.calls, "reduce", "dst") # {}
          => procs'.shrinking \in {"dst", "none"}

\* C40: sparsify of a destination volume that is not sparse prepares no
\* volume and, when the volumes could be looked up, raises VolumeNotSparse;
\* when sparsify is left, by return or by exception, no volume it prepared
\* is held; the temporary volume is torn down after the destination volume;
\* the shrinking of a volume begins only after virtsparsify.sparsify
\* returned and both volumes were torn down with no exception, the
\* temporary volume first.
C40_Sparsify == [][SparsifyStep]_vars /\ []SparsifyState

\* sparsify returned after it reduced both volumes.
C40_Witness ==
    /\ procs.pc = "returned"
    /\ CallsAt("reduce", "tmp") # {} /\ CallsAt("reduce", "dst") # {}
    /\ Cardinality(CallsAt("teardown", "dst")) = 2

\* ---- metadata file (checked under SpecMeta)
\* C15: the metadata file always holds the complete record that the last
\* setMetadata that returned has written (version 0 before the first), so a
\* setMetadata that raised VolumeMetadataWriteError has left the old record
\* in place; and a getMetadata that has read the file to its end has got one
\* complete record, of a version written before it ended.
C15_AtomicMetadata ==
    /\ fs.dir["meta"] # 0
    /\ fs.data[fs.dir["meta"]] = record(procs.writer.committed)
    /\ procs.writer.result = "VolumeMetadataWriteError"
          => procs.writer.committed < procs.writer.ver
    /\ (procs.reader.pc = "done" /\ procs.reader.result = "ok")
          => /\ Complete(procs.reader.got)
             /\ procs.reader.got[1] <= procs.writer.ver

\* A getMetadata that was reading while setMetadata replaced the file has
\* got the complete old record.
C15_Witness ==
    /\ procs.reader.pc = "done" /\ procs.reader.result = "ok"
    /\ procs.reader.got = record(0)
    /\ procs.writer.committed = 1 /\ procs.writer.pc = "idle"
    /\ fs.data[fs.dir["meta"]] = record(1)

\* ---- FileVolume.rename (checked under SpecRename)
\* A step of rename that moves a file to the new name.
RenameMoves(file) ==
    /\ op.kind = "rename" /\ op.pc = "rename"
    /\ hasFile(<<meta, payload, lease>>, file, op.cur)
    /\ ~hasFile(<<meta', payload', lease'>>, file, op.cur)
RenameStep ==
    /\ \A i \in 1..Len(RenameFiles) :
          RenameMoves(RenameFiles[i])
             => \E k \in 1..Len(recoveries) :
                   recoveries[k] = [name |-> "renameVolumeRollback",
                                    file |-> RenameFiles[i],
                                    old |-> op.tmp, new |-> op.cur]
    /\ (op'.pc = "failed" /\ recoveries' = <<>>)
          => <<meta', payload', lease'>> = op.src0
\* C16: with recovery set, rename moves a file to the new name only when the
\* recovery of that file is on the task's stack, and once rename has failed
\* and the recoveries pushed so far have run from the top of the stack,
\* payload, metadata and lease are under their original names as when
\* rename was called.
C16_RenameRollback == [][op.variant = "recovery" => RenameStep]_vars

\* rename has moved all three files, renameLease has raised, and the three
\* recoveries have run.
C16_Witness ==
    /\ op.kind = "rename" /\ op.variant = "recovery"
    /\ op.pc = "failed" /\ op.at = "renameLease"
    /\ recoveries = <<>>
    /\ \A i \in 1..Len(RenameFiles) :
          hasFile(<<meta, payload, lease>>, RenameFiles[i], op.cur)

\* ---- syncVolumeChain, reconcileVolumeChain (checked under SpecSync)
\* The volumes of the stored chain (op.rm) that the actual chain (op.chain)
\* lacks are volumes i..j of the stored chain.
MissingRun(i, j) ==
    /\ i <= j /\ j <= Len(op.rm)
    /\ Elems(op.rm) \ Elems(op.chain) = {op.rm[k] : k \in i..j}
\* The call found a chain of legal volumes that ends at a LEAF.
SyncOfLegalChain ==
    /\ op.out = "ok"
    /\ isLeaf(op.src0[1], op.rm[Len(op.rm)])
    /\ \A k \in 1..Len(op.rm) : op.src0[1][op.rm[k]].legality = "LEGAL"

\* C17 as the specification states it: after reconcileVolumeChain of a
\* chain from which qemu-img reports one run of consecutive volumes gone
\* (the leaf and the volume below the run are still there), the volume above
\* the run has the volume below the run as its parent, getChain returns
\* the actual chain, and the leaf is LEGAL.
C17_Original ==
    (op.kind = "reconcile" /\ SyncOfLegalChain)
       => \A i \in 2..Len(op.rm), j \in 2..Len(op.rm) :
             (MissingRun(i, j) /\ j < Len(op.rm))
                => /\ getParent(meta, op.rm[j + 1]) = op.rm[i - 1]
                   /\ getChain(meta, payload, "img", op.cur, op.cur).chain
                         = op.chain
                   /\ meta[op.cur].legality = "LEGAL"

\* C18 as the specification states it: when the volumes that the actual
\* chain lacks are the last ones of the current chain, the LEAF included,
\* syncVolumeChain marks the leaf ILLEGAL and changes nothing else; when the
\* actual chain lacks none, syncVolumeChain changes nothing.
C18_Original ==
    (op.kind = "sync" /\ SyncOfLegalChain)
       => /\ \A i \in 1..Len(op.rm) :
                MissingRun(i, Len(op.rm))
                   => meta = setLegality(op.src0[1], op.cur, "ILLEGAL")
          /\ Elems(op.rm) \subseteq Elems(op.chain) => meta = op.src0[1]

\* ---- Image.move onto an existing destination (checked under SpecMove)
DestExists == getImageVolumes(dest.meta, "img") # {}
\* The destination image can be looked at and has no ILLEGAL or FAKE volume.
DestLegal ==
    /\ op.readable
    /\ \A v \in getImageVolumes(dest.meta, "img") :
          dest.meta[v].legality \notin {"ILLEGAL", "FAKE"}
\* The step of move that comes before the target is created.
MoveOverwriteStep ==
    (op.kind = "move" /\ op.pc = "deleteDest" /\ DestExists)
       => /\ dest' \in {dest, NoDest}
          /\ (op.forceArg \/ ~DestLegal)
                => (dest' = NoDest <=> op'.pc = "create")
          /\ ~(op.forceArg \/ ~DestLegal)
                => (dest' = dest /\ op'.pc = "create")
\* The target is created on a destination that still has the image only
\* when force was not set and the image there is legal.
MoveCreatesOver ==
    (op.kind = "move" /\ op.pc = "create" /\ DestExists)
       => (~op.forceArg /\ DestLegal)
\* C19: before it creates the target, move deletes an image that exists on
\* the destination exactly when force is set or that image is not legal (it
\* has an ILLEGAL or FAKE volume or cannot be looked at), unless the
\* deleting itself raises and ends move; a legal one is left as it is when
\* force is not set.
C19_OverwriteDestination ==
    [][MoveOverwriteStep /\ MoveCreatesOver /\ MoveCreatesOver']_vars

\* Without force, move has deleted a destination image that could be looked
\* at and was not legal, and is about to create the target.
C19_Witness ==
    /\ op.kind = "move" /\ op.pc = "create"
    /\ op.overwrote /\ ~op.forceArg /\ op.readable
    /\ dest = NoDest

\* ---- _createTargetImage (checked under SpecTarget)
\* The loop has the steps of one volume in this order.
TargetOrder ==
    <<procs.pc, procs'.pc>> \in
        {<<"createVolume", "extend">>, <<"extend", "setType">>,
         <<"setType", "createVolume">>, <<"setType", "done">>,
         <<"createVolume", "failed">>, <<"extend", "failed">>,
         <<"setType", "failed">>,
         <<"acquire", "fakeTemplate">>, <<"acquire", "createVolume">>,
         <<"acquire", "raised">>, <<"fakeTemplate", "createVolume">>,
         <<"done", "returned">>, <<"failed", "raised">>}
TargetCreated == procs.pc = "createVolume" /\ procs'.pc = "extend"
TargetExtended == procs.pc = "extend" /\ procs'.pc = "setType"
TargetTyped == procs.pc = "setType" /\ procs'.pc \in {"createVolume", "done"}

\* C20 as the specification states it: every destination volume is created
\* with allocation type SPARSE.
C20_Original ==
    [][TargetCreated => dest'.vols[srcVol].type = "SPARSE"]_vars

TargetStep ==
    /\ TargetOrder
    /\ TargetCreated
          => dest'.vols[srcVol].type =
                IF ~dest.supportsSparseness /\ meta[srcVol].format = "RAW"
                THEN "PREALLOCATED" ELSE "SPARSE"
    /\ TargetExtended
          => /\ dest'.vols[srcVol].size * BLOCK_SIZE_512
                   >= meta[srcVol].apparentsize
             /\ dest'.vols[srcVol].type = dest.vols[srcVol].type
    /\ TargetTyped
          => dest'.vols[srcVol].type =
                IF meta[srcVol].prealloc = "PREALLOCATED"
                THEN "PREALLOCATED" ELSE dest.vols[srcVol].type
\* C20: _createTargetImage creates a destination volume with allocation
\* type SPARSE when the destination domain supports sparseness or the
\* volume is not RAW, and with PREALLOCATED otherwise; then it extends the
\* volume to no less than the source volume's apparent size; then it sets
\* the type to PREALLOCATED when the source volume was PREALLOCATED; a
\* volume created PREALLOCATED stays so whatever the source volume was.
C20_TargetAllocation == [][TargetStep]_vars

\* A destination volume of a PREALLOCATED source volume was created SPARSE
\* and extended, and is PREALLOCATED now; another was created PREALLOCATED
\* for a SPARSE source volume.
C20_Witness ==
    /\ procs.pc = "returned"
    /\ \E v \in Elems(procs.dstChain) :
          /\ meta[v].prealloc = "PREALLOCATED"
          /\ dest.vols[v].created = "SPARSE"
          /\ dest.vols[v].type = "PREALLOCATED"
          /\ dest.vols[v].size * BLOCK_SIZE_512 >= meta[v].apparentsize
    /\ \E v \in Elems(procs.dstChain) :
          /\ meta[v].prealloc = "SPARSE"
          /\ dest.vols[v].created = "PREALLOCATED"

\* _createTargetImage has returned the two chains.
TargetReturned == procs.pc = "returned" /\ procs.result = "ok"

\* C39 as the specification states it: each destination volume has the
\* allocation type of its source volume.
C39_Original ==
    TargetReturned
       => \A v \in Elems(op.chain) : dest.vols[v].type = meta[v].prealloc

\* C39: after _createTargetImage succeeded every source volume has its
\* destination volume, and that volume has the allocation type of the
\* source volume, but for a RAW volume on a destination domain that does
\* not support sparseness, which is PREALLOCATED whatever the source volume
\* is.
C39_AllocationType ==
    TargetReturned
       => /\ procs.dstChain = op.chain
          /\ \A v \in Elems(op.chain) :
                dest.vols[v].type =
                   IF ~dest.supportsSparseness /\ meta[v].format = "RAW"
                   THEN "PREALLOCATED" ELSE meta[v].prealloc

\* _createTargetImage succeeded on a domain without sparseness for a chain
\* of a SPARSE RAW base, now PREALLOCATED, a SPARSE snapshot and a
\* PREALLOCATED snapshot, which kept their types.
C39_Witness ==
    /\ TargetReturned
    /\ ~dest.supportsSparseness
    /\ Len(op.chain) = 3
    /\ meta[1].format = "RAW" /\ meta[1].prealloc = "SPARSE"
    /\ dest.vols[1].type = "PREALLOCATED"
    /\ \E v, w \in {2, 3} :
          /\ meta[v].prealloc = "SPARSE" /\ dest.vols[v].type = "SPARSE"
          /\ meta[w].prealloc = "PREALLOCATED"
          /\ dest.vols[w].type = "PREALLOCATED"

\* The SHARED lock of the template's image is held in the destination
\* domain's image namespace.
TemplateLocked == [res |-> pimg, mode |-> "SHARED"] \in dest.locks
TargetCreating ==
    procs.pc \in {"fakeTemplate", "createVolume", "extend", "setType"}
TargetLocking ==
    /\ (pimg # BLANK_IMAGE /\ (TargetCreating \/ procs.pc \in {"done", "failed"}))
          => TemplateLocked
    /\ (pimg # BLANK_IMAGE
          /\ (dest'.vols # dest.vols \/ dest'.fake # dest.fake))
          => (TemplateLocked /\ TemplateLocked')
    /\ procs'.pc \in {"returned", "raised"} => dest'.locks = {}
    /\ pimg = BLANK_IMAGE => (dest.locks = {} /\ dest'.locks = {})
\* C21: for a source chain on a template, the SHARED lock of the template's
\* image is held from before the fake template and the first destination
\* volume are created until the creating has ended, every destination
\* volume is created while it is held, and it is released when
\* _createTargetImage returns or raises; for a standalone chain no lock is
\* ever held.
C21_TemplateLock == [][TargetLocking]_vars

\* _createTargetImage of a chain on a template has created a destination
\* volume, has then failed, and has left with the lock released.
C21_Witness ==
    /\ procs.pc = "raised" /\ procs.result # "ResourceException"
    /\ pimg # BLANK_IMAGE
    /\ dest.vols[op.chain[1]] # NoVol
    /\ dest.locks = {}

\* ---- Image.move
MoveDone == op.kind = "move" /\ op.pc = "done"

\* C4 as stated: a move that ends with an error has left the payload, the
\* lease and the metadata of every volume of the source image as they were
\* when it started.
C4_Original ==
    (MoveDone /\ op.out # "ok") => <<meta, payload, lease>> = op.src0

\* The destination holds every volume of the source chain, created with the
\* parent of its source volume, copied, and SHARED or INTERNAL when its
\* source volume is.
DestComplete ==
    \A v \in Elems(op.chain) :
        /\ dest.meta[v] # NoMeta
        /\ v \in dest.copied
        /\ meta[v].voltype \in {"SHARED", "INTERNAL"}
              => dest.meta[v].voltype = meta[v].voltype
        /\ dest.meta[v].parent = meta[v].parent

\* C5: a step of move changes a file of the source image only when op is
\* MOVE, the destination is created, copied and finalized and the
\* recoveries are cleared.
SourceDeletedLate ==
    (op.kind = "move" /\ <<meta, payload, lease>>' # <<meta, payload, lease>>)
        => /\ op.mop = "MOVE"
           /\ op.pc = "deleteSrc"
           /\ op.committed
           /\ recoveries = <<>>
           /\ DestComplete
C5_SourceDeletion == [][SourceDeletedLate]_vars

\* A MOVE has ended with success and the source image is gone.
C5_Witness ==
    /\ MoveDone /\ op.mop = "MOVE" /\ op.out = "ok"
    /\ ImgVols = {}
    /\ Len(op.chain) >= 2

\* ---- errors after the commit point
Committed == op.kind \in {"merge", "move"} /\ op.pc = "done" /\ op.committed

OnlyLogged(r) ==
    \/ r[1] = "remove"
    \/ r[1] = "shrink" /\ r[2] = "CmdError"
    \/ r[1] = "deleteSrc" /\ r[2] = "StorageException"

====
